---- MODULE Spec2Model ----
(***************************************************************************)
(* cubik: the per-device animation scheduler (StartDeviceAnimation,        *)
(* StopDeviceAnimation, PlayAnimation) together with the parts of the      *)
(* protocol client it relies on (parseLocation, ActivateFxMode,            *)
(* UpdateLeds).                                                            *)
(*                                                                         *)
(* HTTP handlers run concurrently, one goroutine per request: Callers.     *)
(* Every StartDeviceAnimation creates one AnimationState and one playback  *)
(* goroutine: a session.  A step of the model is one statement (or one     *)
(* critical section) of a caller or of a playback goroutine, or the        *)
(* runtime delivering a tick into a session's ticker channel.              *)
(*                                                                         *)
(* The library parts are modelled each under a specification of its own:   *)
(* device discovery (DiscoverDevices, parseDeviceInfo) under               *)
(* SpecDiscovery, the protocol client (SendCommand,                        *)
(* SendCommandNoResponse) under SpecCommand and the framebuffer            *)
(* (SetPixel, GetPixel, Encode, DrawDigit) under SpecDrawing.              *)
(***************************************************************************)
EXTENDS Integers, Sequences, FiniteSets, TLC

\* ---------------------------------------------------------------- bounds
\* Longest frame sequence handed to StartDeviceAnimation.
MaxFrames == 2
\* Ticks a session's ticker delivers beyond one per frame: enough to play
\* the sequence once and to wrap around.
ExtraTicks == 1

\* Concurrent request goroutines.
Callers == {1, 2}
\* AnimationState objects that can be created in one run.
Sessions == {1, 2}
\* The nil *AnimationState: what a map lookup of a missing key yields.
NoSession == 0

\* ------------------------------------------------------------- locations
\* A location is a string, modelled as the sequence of its parts so that
\* the prefix test of parseLocation is computed, not assumed.
SchemePrefix == "yeelight://"
LocA == <<"yeelight://", "192.168.1.239:55443">>
LocBad == <<"192.168.1.241:55443">>
Locations == {LocA, LocBad}

\* strings.TrimPrefix
TrimPrefix(s, prefix) ==
    IF Len(s) >= 1 /\ s[1] = prefix THEN Tail(s) ELSE s

\* Faulty variant of parseLocation: every location is let through.
parseLocationLax(location) == [addr |-> location, err |-> FALSE]

\* parseLocation: the address and whether the location was rejected.
parseLocation(location) ==
    LET addr == TrimPrefix(location, SchemePrefix)
    IN  IF addr = location
        THEN [addr |-> <<>>, err |-> TRUE]
        ELSE [addr |-> addr, err |-> FALSE]

\* SendCommand as seen by a caller: a location error before any connection,
\* else whatever the network and the device make of the exchange.
\*   "ok"         a result array whose first element is "ok"
\*   "unexpected" a result array that is empty or starts with something else
\*   "device"     an error object from the device
\*   "transport"  connect, write, read or decode failure
SendCommandOutcomes(location) ==
    IF parseLocation(location).err
    THEN {"validation"}
    ELSE {"ok", "unexpected", "device", "transport"}

\* ActivateFxMode returns nil exactly for an "ok" outcome of SendCommand.
ActivateFxModeErr(outcome) == outcome # "ok"

\* SendCommandNoResponse / UpdateLeds: nothing is read, so the outcomes are
\* a location error, a connect or write failure, or success.
UpdateLedsOutcomes(location) ==
    IF parseLocation(location).err
    THEN {"validation"}
    ELSE {"ok", "transport"}

\* ----------------------------------------------------------------- state
VARIABLES
    runningAnimations,  \* the registry: location -> session (NoSession: absent)
    animationsMu,       \* holder of the registry lock
    cpc,                \* caller: position in Start/StopDeviceAnimation
    cop,                \* caller: the call in progress or last made
    ckey,               \* caller: deviceLocation argument
    cframes,            \* caller: len(frames) argument
    cfound,             \* caller: state found by the lookup in StopDeviceAnimation
    cnew,               \* caller: state created by StartDeviceAnimation
    spc,                \* session: position of its goroutine
    skey,               \* session: state.DeviceLocation
    sframes,            \* session: len(state.Frames)
    frameIndex,         \* session: PlayAnimation's frameIndex
    ctxDone,            \* session: ctx cancelled
    done,               \* session: done channel closed
    tickPending,        \* session: a tick waits in ticker.C (capacity 1)
    fxErr,              \* session: what ActivateFxMode returned
    ticks,              \* history: ticks the loop has taken
    sendFailed,         \* history: the last UpdateLeds that returned, returned an error
    sentAfterCancel,    \* history: a send was begun after ctx was cancelled
    joined,             \* history: a StopDeviceAnimation that found it has returned
    stopNoop,           \* history: the step just taken was a StopDeviceAnimation(k) call
                        \* finding nothing and returning
    lateSend,           \* history: a send begun after such a return
    raced,              \* history: two calls on one location have overlapped
    crashed             \* the process died of a goroutine panic

VARIABLES
    dpc,                \* DiscoverDevices: position
    received,           \* DiscoverDevices: datagrams ReadFromUDP has returned, in order
    discoveredDevices,  \* DiscoverDevices: map location -> *DeviceInfo
    devices,            \* DiscoverDevices: the slice it returns
    derr,               \* DiscoverDevices: the error it returns
    readErr,            \* DiscoverDevices: the error of the last ReadFromUDP
    probes              \* DiscoverDevices: the WriteToUDP calls it has made

discoveryVars == <<dpc, received, discoveredDevices, devices, derr, readErr, probes>>

VARIABLES
    kpc,                \* SendCommand / SendCommandNoResponse: position
    kcall,              \* the call: function, device.Location, method, params
    knet,               \* history: what the call has attempted on the network, in order
    kreply,             \* history: what the device sent back
    kcause,             \* history: the step the call ended at
    kresult,            \* the call's results: response and err
    kconn,              \* conn of the call: "none", "open" or "closed"
    kwrap               \* ActivateFxMode / TogglePower / SetBrightness: position, argument, error

commandVars == <<kpc, kcall, knet, kreply, kcause, kresult, kconn, kwrap>>

VARIABLES
    fb,                 \* the Framebuffer: Width, Height, Pixels
    glast               \* the framebuffer call made last: arguments and results

drawingVars == <<fb, glast>>

VARIABLES
    rgb,                \* the bytes r, g, b handed to encodeRGBColor
    rgbText             \* the string it returned, empty before the call

encodingVars == <<rgb, rgbText>>

VARIABLES
    ppc,                \* where PlayAnimation's loop is: "loop", "returned", "panicked"
    pframes,            \* state.Frames, each frame a sequence of colours
    pframeIndex,        \* frameIndex
    pfb,                \* fb, made once before the loop
    prgbData,           \* the rgbData of the last UpdateLeds call, empty before it
    pticks              \* how many ticks the loop has taken

playbackVars == <<ppc, pframes, pframeIndex, pfb, prgbData, pticks>>

VARIABLES
    replyText,          \* parseDeviceInfo: the lines of its argument, character by character
    parsed              \* parseDeviceInfo: the fields of the *DeviceInfo it returned

parseVars == <<replyText, parsed>>

libraryVars == <<discoveryVars, commandVars, drawingVars, encodingVars, playbackVars, parseVars>>

callerVars == <<cpc, cop, ckey, cframes, cfound, cnew>>
sessionVars == <<spc, skey, sframes, frameIndex, ctxDone, done, tickPending, fxErr>>
historyVars == <<ticks, sendFailed, sentAfterCancel, joined, lateSend, raced>>
schedulerVars == <<runningAnimations, animationsMu, callerVars, sessionVars, historyVars,
                   stopNoop, crashed>>
vars == <<schedulerVars, libraryVars>>

Free == [kind |-> "free", id |-> 0]
ByCaller(c) == [kind |-> "caller", id |-> c]
ByTask(s) == [kind |-> "task", id |-> s]

\* No DiscoverDevices call has been made.
DiscoveryIdle ==
    /\ dpc = "idle"
    /\ received = <<>>
    /\ discoveredDevices = [l \in {} |-> l]
    /\ devices = <<>>
    /\ derr = "nil"
    /\ readErr = "nil"
    /\ probes = 0

\* error(nil); an error value is its text in three parts (what failed, the
\* device's code, the detail) and the kind of error it wraps.
NoError == [text |-> "", code |-> 0, detail |-> "", wraps |-> "none"]

\* (*CommandResponse)(nil)
NilResponse == [isNil |-> TRUE, Result |-> <<>>, hasError |-> FALSE, Code |-> 0, Message |-> ""]

\* The device sent nothing.
NoReply == [kind |-> "none", result |-> <<>>, code |-> 0, message |-> ""]

\* Neither ActivateFxMode, TogglePower nor SetBrightness is being called.
NoWrapper == [pc |-> "idle", fn |-> "none", brightness |-> 0, err |-> "nil"]

\* No SendCommand or SendCommandNoResponse call has been made.
CommandIdle ==
    /\ kpc = "idle"
    /\ kcall = [seq |-> 0, op |-> "none", location |-> LocA, method |-> "", marshalOk |-> TRUE]
    /\ knet = <<>>
    /\ kreply = NoReply
    /\ kcause = "none"
    /\ kresult = [response |-> NilResponse, err |-> NoError]
    /\ kconn = "none"
    /\ kwrap = NoWrapper

\* Color{}: black.
Black == [R |-> 0, G |-> 0, B |-> 0]

\* No framebuffer call has been made.
NoCall ==
    [seq |-> 0, op |-> "none", x |-> 0, y |-> 0, digit |-> "", err |-> "nil",
     out |-> Black, encoded |-> <<>>,
     text |-> [str |-> <<>>, spacing |-> 0, alignment |-> 0], background |-> Black]

\* No framebuffer is in use.
DrawingIdle ==
    /\ fb = [Width |-> 0, Height |-> 0, Pixels |-> <<>>]
    /\ glast = NoCall

\* encodeRGBColor has not been called.
EncodingIdle ==
    /\ rgb = <<0, 0, 0>>
    /\ rgbText = <<>>

\* PlayAnimation's loop has not been entered.
PlaybackIdle ==
    /\ ppc = "idle"
    /\ pframes = <<>>
    /\ pframeIndex = 0
    /\ pfb = [Width |-> 0, Height |-> 0, Pixels |-> <<>>]
    /\ prgbData = <<>>
    /\ pticks = 0

\* parseDeviceInfo has not been called on a text.
ParseIdle ==
    /\ replyText = <<>>
    /\ parsed = <<>>

\* The scheduler after package initialisation: an empty registry.
SchedulerInit ==
    /\ runningAnimations = [l \in Locations |-> NoSession]
    /\ animationsMu = Free
    /\ cpc = [c \in Callers |-> "idle"]
    /\ cop = [c \in Callers |-> "none"]
    /\ ckey = [c \in Callers |-> LocA]
    /\ cframes = [c \in Callers |-> 0]
    /\ cfound = [c \in Callers |-> NoSession]
    /\ cnew = [c \in Callers |-> NoSession]
    /\ spc = [s \in Sessions |-> "none"]
    /\ skey = [s \in Sessions |-> LocA]
    /\ sframes = [s \in Sessions |-> 0]
    /\ frameIndex = [s \in Sessions |-> 0]
    /\ ctxDone = [s \in Sessions |-> FALSE]
    /\ done = [s \in Sessions |-> FALSE]
    /\ tickPending = [s \in Sessions |-> FALSE]
    /\ fxErr = [s \in Sessions |-> "none"]
    /\ ticks = [s \in Sessions |-> 0]
    /\ sendFailed = [s \in Sessions |-> FALSE]
    /\ sentAfterCancel = [s \in Sessions |-> FALSE]
    /\ joined = [s \in Sessions |-> FALSE]
    /\ stopNoop = FALSE
    /\ lateSend = [s \in Sessions |-> FALSE]
    /\ raced = FALSE
    /\ crashed = FALSE

Init ==
    /\ SchedulerInit
    /\ DiscoveryIdle
    /\ CommandIdle
    /\ DrawingIdle
    /\ ParseIdle
    /\ PlaybackIdle
    /\ EncodingIdle

\* --------------------------------------------------------------- callers
InCall(c) == cpc[c] # "idle"
FreeSessions == {s \in Sessions : spc[s] = "none"}
StartsInProgress == {c \in Callers : InCall(c) /\ cop[c] = "start" /\ cnew[c] = NoSession}

\* The caller moves on inside its call.
Goto(c, pc, found) ==
    /\ cpc' = [cpc EXCEPT ![c] = pc]
    /\ cfound' = [cfound EXCEPT ![c] = found]
    /\ UNCHANGED <<cop, ckey, cframes, cnew>>

\* The call returns to the handler; the call's frame is gone.
Returned(c) ==
    /\ cpc' = [cpc EXCEPT ![c] = "idle"]
    /\ cop' = [cop EXCEPT ![c] = "none"]
    /\ ckey' = [ckey EXCEPT ![c] = LocA]
    /\ cframes' = [cframes EXCEPT ![c] = 0]
    /\ cfound' = [cfound EXCEPT ![c] = NoSession]
    /\ cnew' = [cnew EXCEPT ![c] = NoSession]

\* A request arrives: StartDeviceAnimation(k, frames) with len(frames) = n, or
\* StopDeviceAnimation(k).  Both begin with the body of StopDeviceAnimation,
\* whose first statement is animationsMu.Lock().
Call(c, op, k, n) ==
    /\ ~crashed
    /\ stopNoop' = FALSE
    /\ cpc[c] = "idle"
    /\ op = "start" => Cardinality(FreeSessions) > Cardinality(StartsInProgress)
    /\ op = "stop" => n = 0
    /\ animationsMu = Free
    /\ animationsMu' = ByCaller(c)
    /\ cpc' = [cpc EXCEPT ![c] = "stop_lookup"]
    /\ cop' = [cop EXCEPT ![c] = op]
    /\ ckey' = [ckey EXCEPT ![c] = k]
    /\ cframes' = [cframes EXCEPT ![c] = n]
    /\ raced' = (raced \/ \E o \in Callers \ {c} : InCall(o) /\ ckey[o] = k)
    /\ UNCHANGED <<runningAnimations, cfound, cnew, sessionVars, crashed,
                   ticks, sendFailed, sentAfterCancel, joined, lateSend>>

\* Faulty variant of Lookup: a lookup that forgets the key and settles for
\* any registered state when the key has none.
LookupAnyKey(registry, k) ==
    IF registry[k] # NoSession
    THEN registry[k]
    ELSE IF \E l \in DOMAIN registry : registry[l] # NoSession
         THEN registry[CHOOSE l \in DOMAIN registry : registry[l] # NoSession]
         ELSE NoSession

\* state, exists := runningAnimations[deviceLocation]
Lookup(registry, k) == registry[k]

\* Faulty variant of UnlockAfterLookup: the unlock is deferred to the return
\* of StopDeviceAnimation, never reached in this model.
UnlockDeferred(c) == ByCaller(c)

\* animationsMu.Unlock() right after the lookup, before StopFunc is called.
UnlockAfterLookup(c) == Free

\* state, exists := ...; animationsMu.Unlock(); if exists { ... }
\* Without a registered state StopDeviceAnimation is over: it returns to the
\* handler, or StartDeviceAnimation goes on.
StopLookup(c) ==
    /\ ~crashed
    /\ cpc[c] = "stop_lookup"
    /\ animationsMu = ByCaller(c)
    /\ animationsMu' = UnlockAfterLookup(c)
    /\ LET state == Lookup(runningAnimations, ckey[c])
       IN  IF state # NoSession
           THEN Goto(c, "stop_cancel", state) /\ stopNoop' = FALSE
           ELSE IF cop[c] = "stop"
                THEN Returned(c) /\ stopNoop' = TRUE
                ELSE Goto(c, "start_lock", NoSession) /\ stopNoop' = FALSE
    /\ UNCHANGED <<runningAnimations, sessionVars, ticks, sendFailed, sentAfterCancel,
                   joined, lateSend, raced, crashed>>

\* state.StopFunc(), first half: cancelFunc()
StopCancel(c) ==
    /\ ~crashed
    /\ stopNoop' = FALSE
    /\ cpc[c] = "stop_cancel"
    /\ ctxDone' = [ctxDone EXCEPT ![cfound[c]] = TRUE]
    /\ Goto(c, "stop_wait", cfound[c])
    /\ UNCHANGED <<runningAnimations, animationsMu, spc, skey, sframes, frameIndex,
                   done, tickPending, fxErr, historyVars, crashed>>

\* Faulty variant of StopMayReturn: a stop that cancels and does not wait.
StopNeverWaits(s) == TRUE

\* Whether StopFunc may return: <-done blocks until the channel is closed.
StopMayReturn(s) == done[s]

\* state.StopFunc(), second half: <-done; StopDeviceAnimation returns
StopWait(c) ==
    /\ ~crashed
    /\ stopNoop' = FALSE
    /\ cpc[c] = "stop_wait"
    /\ StopMayReturn(cfound[c])
    /\ joined' = [joined EXCEPT ![cfound[c]] = TRUE]
    /\ IF cop[c] = "stop"
       THEN Returned(c)
       ELSE Goto(c, "start_lock", cfound[c])
    /\ UNCHANGED <<runningAnimations, animationsMu, sessionVars, ticks, sendFailed,
                   sentAfterCancel, lateSend, raced, crashed>>

\* context.WithCancel, make(chan), &AnimationState{...}; animationsMu.Lock()
StartLock(c) ==
    /\ ~crashed
    /\ stopNoop' = FALSE
    /\ cpc[c] = "start_lock"
    /\ animationsMu = Free
    /\ animationsMu' = ByCaller(c)
    /\ Goto(c, "start_register", cfound[c])
    /\ UNCHANGED <<runningAnimations, sessionVars, historyVars, crashed>>

\* The AnimationState this call created: a fresh object.
NewSession == CHOOSE s \in FreeSessions : \A t \in FreeSessions : s <= t

\* runningAnimations[deviceLocation] = state
Register(registry, k, s) == [registry EXCEPT ![k] = s]

\* runningAnimations[deviceLocation] = state; animationsMu.Unlock()
StartRegister(c) ==
    /\ ~crashed
    /\ stopNoop' = FALSE
    /\ cpc[c] = "start_register"
    /\ animationsMu = ByCaller(c)
    /\ animationsMu' = Free
    /\ LET s == NewSession
       IN  /\ runningAnimations' = Register(runningAnimations, ckey[c], s)
           /\ cnew' = [cnew EXCEPT ![c] = s]
           /\ spc' = [spc EXCEPT ![s] = "created"]
           /\ skey' = [skey EXCEPT ![s] = ckey[c]]
           /\ sframes' = [sframes EXCEPT ![s] = cframes[c]]
    /\ cpc' = [cpc EXCEPT ![c] = "start_spawn"]
    /\ UNCHANGED <<cop, ckey, cframes, cfound, frameIndex, ctxDone, done,
                   tickPending, fxErr, historyVars, crashed>>

\* What StartDeviceAnimation reports to the handler for a session it has
\* created: it has no error path, and the handler answers "Animation
\* started successfully" whatever the location and whatever the goroutine
\* meets later.
StartResult(location, activationErr) == "started"

\* go func() { ... }(); StartDeviceAnimation returns
StartSpawn(c) ==
    /\ ~crashed
    /\ stopNoop' = FALSE
    /\ cpc[c] = "start_spawn"
    /\ spc' = [spc EXCEPT ![cnew[c]] = "activate"]
    /\ Returned(c)
    /\ UNCHANGED <<runningAnimations, animationsMu, skey, sframes, frameIndex, ctxDone,
                   done, tickPending, fxErr, historyVars, crashed>>

\* ---------------------------------------------------- playback goroutine
\* Faulty variant of AfterActivate: the loop is entered whatever
\* ActivateFxMode returned.
AfterActivateIgnored(err) == "select"

\* if err := ActivateFxMode(deviceInfo); err != nil { return ... }
AfterActivate(err) == IF err THEN "cleanup_lock" ELSE "select"

\* ActivateFxMode(deviceInfo) returns; on an error PlayAnimation returns it
\* and the goroutine only logs it.  On success the ticker is created.
TaskActivate(s, outcome) ==
    /\ ~crashed
    /\ stopNoop' = FALSE
    /\ spc[s] = "activate"
    /\ outcome \in SendCommandOutcomes(skey[s])
    /\ fxErr' = [fxErr EXCEPT ![s] = IF ActivateFxModeErr(outcome) THEN "err" ELSE "nil"]
    /\ spc' = [spc EXCEPT ![s] = AfterActivate(ActivateFxModeErr(outcome))]
    /\ UNCHANGED <<runningAnimations, animationsMu, callerVars, skey, sframes,
                   frameIndex, ctxDone, done, tickPending, historyVars, crashed>>

TickerRunning(s) == spc[s] \in {"select", "sending"}

\* The runtime puts a tick into ticker.C; the channel holds one tick and a
\* tick that finds it full is dropped.
Tick(s) ==
    /\ ~crashed
    /\ stopNoop' = FALSE
    /\ TickerRunning(s)
    /\ ~tickPending[s]
    /\ ticks[s] < sframes[s] + ExtraTicks
    /\ tickPending' = [tickPending EXCEPT ![s] = TRUE]
    /\ UNCHANGED <<runningAnimations, animationsMu, callerVars, spc, skey, sframes,
                   frameIndex, ctxDone, done, fxErr, historyVars, crashed>>

\* select, case <-ctx.Done(): return nil, with the deferred ticker.Stop();
\* PlayAnimation's locals are gone.
TaskSelectDone(s) ==
    /\ ~crashed
    /\ stopNoop' = FALSE
    /\ spc[s] = "select"
    /\ ctxDone[s]
    /\ spc' = [spc EXCEPT ![s] = "cleanup_lock"]
    /\ tickPending' = [tickPending EXCEPT ![s] = FALSE]
    /\ frameIndex' = [frameIndex EXCEPT ![s] = 0]
    /\ ticks' = [ticks EXCEPT ![s] = 0]
    /\ sendFailed' = [sendFailed EXCEPT ![s] = FALSE]
    /\ sentAfterCancel' = [sentAfterCancel EXCEPT ![s] = FALSE]
    /\ UNCHANGED <<runningAnimations, animationsMu, callerVars, skey, sframes,
                   ctxDone, done, fxErr, joined, lateSend, raced, crashed>>

\* Faulty variant of WrapFrameIndex: wraps one frame early.
WrapFrameIndexEarly(idx, n) == IF idx >= n - 1 THEN 0 ELSE idx

\* if frameIndex >= len(state.Frames) { frameIndex = 0 }
WrapFrameIndex(idx, n) == IF idx >= n THEN 0 ELSE idx

\* state.Frames[frameIndex] panics when the index is out of range.
IndexInRange(idx, n) == 0 <= idx /\ idx < n

\* select, case <-ticker.C: wrap the index, copy the frame, encode it and
\* call UpdateLeds.  Go's select picks among the ready cases at random, so
\* this step is enabled whenever a tick is pending, cancelled or not.
TaskSelectTick(s) ==
    /\ ~crashed
    /\ stopNoop' = FALSE
    /\ spc[s] = "select"
    /\ tickPending[s]
    /\ tickPending' = [tickPending EXCEPT ![s] = FALSE]
    /\ ticks' = [ticks EXCEPT ![s] = @ + 1]
    /\ LET idx == WrapFrameIndex(frameIndex[s], sframes[s])
       IN  IF IndexInRange(idx, sframes[s])
           THEN /\ frameIndex' = [frameIndex EXCEPT ![s] = idx]
                /\ spc' = [spc EXCEPT ![s] = "sending"]
                /\ sentAfterCancel' = [sentAfterCancel EXCEPT ![s] = @ \/ ctxDone[s]]
                /\ lateSend' = [lateSend EXCEPT ![s] = @ \/ joined[s]]
                /\ UNCHANGED crashed
           ELSE /\ spc' = [spc EXCEPT ![s] = "panicked"]
                /\ crashed' = TRUE
                /\ UNCHANGED <<frameIndex, sentAfterCancel, lateSend>>
    /\ UNCHANGED <<runningAnimations, animationsMu, callerVars, skey, sframes,
                   ctxDone, done, fxErr, sendFailed, joined, raced>>

\* Faulty variant of AfterUpdateLeds: the loop returns the error.
AfterUpdateLedsReturn(err) == IF err THEN "cleanup_lock" ELSE "select"

\* Where the loop goes once UpdateLeds has returned: an error is logged and
\* the loop goes on.
AfterUpdateLeds(err) == "select"

\* UpdateLeds returns; frameIndex++
TaskSendDone(s, outcome) ==
    /\ ~crashed
    /\ stopNoop' = FALSE
    /\ spc[s] = "sending"
    /\ outcome \in UpdateLedsOutcomes(skey[s])
    /\ sendFailed' = [sendFailed EXCEPT ![s] = outcome # "ok"]
    /\ frameIndex' = [frameIndex EXCEPT ![s] = @ + 1]
    /\ spc' = [spc EXCEPT ![s] = AfterUpdateLeds(outcome # "ok")]
    /\ UNCHANGED <<runningAnimations, animationsMu, callerVars, skey, sframes,
                   ctxDone, done, tickPending, fxErr, ticks, sentAfterCancel,
                   joined, lateSend, raced, crashed>>

\* deferred cleanup: animationsMu.Lock()
TaskCleanupLock(s) ==
    /\ ~crashed
    /\ stopNoop' = FALSE
    /\ spc[s] = "cleanup_lock"
    /\ animationsMu = Free
    /\ animationsMu' = ByTask(s)
    /\ spc' = [spc EXCEPT ![s] = "cleanup_delete"]
    /\ UNCHANGED <<runningAnimations, callerVars, skey, sframes, frameIndex, ctxDone,
                   done, tickPending, fxErr, historyVars, crashed>>

\* Faulty variant of Delete: the cleanup empties the registry.
DeleteAll(registry, k) == [l \in DOMAIN registry |-> NoSession]

\* Faulty variant of Delete: the cleanup leaves the entry in place.
DeleteNothing(registry, k) == registry

\* delete(runningAnimations, deviceLocation): by key, whatever it maps to
Delete(registry, k) == [registry EXCEPT ![k] = NoSession]

\* delete(runningAnimations, deviceLocation); animationsMu.Unlock()
TaskCleanupDelete(s) ==
    /\ ~crashed
    /\ stopNoop' = FALSE
    /\ spc[s] = "cleanup_delete"
    /\ animationsMu = ByTask(s)
    /\ runningAnimations' = Delete(runningAnimations, skey[s])
    /\ animationsMu' = Free
    /\ spc' = [spc EXCEPT ![s] = "close_done"]
    /\ UNCHANGED <<callerVars, skey, sframes, frameIndex, ctxDone, done, tickPending,
                   fxErr, historyVars, crashed>>

\* close(done): the goroutine is over
TaskCloseDone(s) ==
    /\ ~crashed
    /\ stopNoop' = FALSE
    /\ spc[s] = "close_done"
    /\ done' = [done EXCEPT ![s] = TRUE]
    /\ spc' = [spc EXCEPT ![s] = "exited"]
    /\ UNCHANGED <<runningAnimations, animationsMu, callerVars, skey, sframes,
                   frameIndex, ctxDone, tickPending, fxErr, historyVars, crashed>>

\* ------------------------------------------------------------------ next
Outcomes == {"ok", "unexpected", "device", "transport", "validation"}

Next ==
    \/ \E c \in Callers, k \in Locations, n \in 0 .. MaxFrames : Call(c, "start", k, n) /\ UNCHANGED libraryVars
    \/ \E c \in Callers, k \in Locations : Call(c, "stop", k, 0) /\ UNCHANGED libraryVars
    \/ \E c \in Callers : StopLookup(c) /\ UNCHANGED libraryVars
    \/ \E c \in Callers : StopCancel(c) /\ UNCHANGED libraryVars
    \/ \E c \in Callers : StopWait(c) /\ UNCHANGED libraryVars
    \/ \E c \in Callers : StartLock(c) /\ UNCHANGED libraryVars
    \/ \E c \in Callers : StartRegister(c) /\ UNCHANGED libraryVars
    \/ \E c \in Callers : StartSpawn(c) /\ UNCHANGED libraryVars
    \/ \E s \in Sessions, o \in Outcomes : TaskActivate(s, o) /\ UNCHANGED libraryVars
    \/ \E s \in Sessions : Tick(s) /\ UNCHANGED libraryVars
    \/ \E s \in Sessions : TaskSelectDone(s) /\ UNCHANGED libraryVars
    \/ \E s \in Sessions : TaskSelectTick(s) /\ UNCHANGED libraryVars
    \/ \E s \in Sessions, o \in Outcomes : TaskSendDone(s, o) /\ UNCHANGED libraryVars
    \/ \E s \in Sessions : TaskCleanupLock(s) /\ UNCHANGED libraryVars
    \/ \E s \in Sessions : TaskCleanupDelete(s) /\ UNCHANGED libraryVars
    \/ \E s \in Sessions : TaskCloseDone(s) /\ UNCHANGED libraryVars

Spec == Init /\ [][Next]_vars

\* ---------------------------------------------------------------- claims
\* PlayAnimation is running for the session: its playback task is alive.
Playing(s) == spc[s] \in {"activate", "select", "sending"}

PlayingOn(k) == {s \in Sessions : skey[s] = k /\ Playing(s)}

\* C1: under every interleaving of start and stop calls, no device key ever
\* has two playback tasks alive at once, and so never two frame sends in
\* flight at once.
C1_OneTaskPerDevice ==
    \A s, t \in Sessions :
        (s # t /\ skey[s] = skey[t]) =>
            /\ ~(spc[s] \in {"select", "sending"} /\ spc[t] \in {"select", "sending"})
            /\ ~(spc[s] = "sending" /\ spc[t] = "sending")

\* The StartDeviceAnimation call of c has registered its session.
HasRegistered(c) == cop[c] = "start" /\ cpc[c] = "start_spawn"

\* Caller c takes the last step of StartDeviceAnimation.
StartReturns(c) == cpc[c] = "start_spawn" /\ cpc'[c] = "idle"

\* C2: when start(D, B) follows start(D, A), A's task has exited before B is
\* registered and sends no frame from then on; and when start(D, B) returns,
\* calls on a location having come one after the other, B's session is the
\* registered one and the only one playing on D.
C2_StartSupersedes ==
    /\ [](\A c \in Callers :
            (cop[c] = "start" /\ cpc[c] \in {"start_lock", "start_register", "start_spawn"}
                /\ cfound[c] # NoSession)
            => (spc[cfound[c]] = "exited" /\ ~lateSend[cfound[c]]))
    /\ [][\A c \in Callers :
            (StartReturns(c) /\ ~raced)
            => /\ runningAnimations'[ckey[c]] = cnew[c]
               /\ {s \in Sessions : skey'[s] = ckey[c] /\ spc'[s] \in {"activate", "select", "sending"}}
                    = {cnew[c]}]_vars

\* B is registered after A, the session B's start found, has exited.
C2_Witness ==
    \E c \in Callers :
        /\ HasRegistered(c)
        /\ ~raced
        /\ cfound[c] # NoSession
        /\ spc[cfound[c]] = "exited"
        /\ fxErr[cfound[c]] = "nil"
        /\ runningAnimations[ckey[c]] = cnew[c]

\* Caller c takes the last step of a StopDeviceAnimation that found a state.
StopReturns(c) == cpc[c] = "stop_wait" /\ cpc'[c] # "stop_wait"

\* C3 as claimed: a stop(D) that found a session returns only after that
\* session's task has exited, the registry then has no entry for D, and the
\* stopped session sends no frame after the return.
C3_StopLeavesNoEntry ==
    /\ [](\A s \in Sessions : joined[s] => (spc[s] = "exited" /\ ~lateSend[s]))
    /\ [][\A c \in Callers :
            StopReturns(c)
            => /\ spc'[cfound[c]] = "exited"
               /\ runningAnimations'[ckey[c]] = NoSession]_vars

\* C3 as amended: a stop(D) that found a session returns only after that
\* session's task has exited; on return the registry no longer maps D to that
\* session, and has no entry for D at all when no other call on D ran
\* meanwhile; the stopped session sends no frame after the return.
C3_StopJoins ==
    /\ [](\A s \in Sessions : joined[s] => (spc[s] = "exited" /\ ~lateSend[s]))
    /\ [][\A c \in Callers :
            StopReturns(c)
            => /\ spc'[cfound[c]] = "exited"
               /\ runningAnimations'[ckey[c]] # cfound[c]
               /\ ~raced => runningAnimations'[ckey[c]] = NoSession]_vars

\* A stop(D) has returned for a session that had been playing.
C3_Witness ==
    \E s \in Sessions :
        /\ joined[s]
        /\ fxErr[s] = "nil"
        /\ spc[s] = "exited"
        /\ runningAnimations[skey[s]] = NoSession
        /\ \A c \in Callers : ~InCall(c)

\* C4: a stop(D) that finds no session registered for D returns at once and
\* changes nothing: no cancellation, no step of any playback task, no change
\* of the registry or of any session.
C4_StopWithoutSessionIsNoop ==
    [][\A c \in Callers :
        (/\ cpc[c] = "stop_lookup"
         /\ cop[c] = "stop"
         /\ runningAnimations[ckey[c]] = NoSession
         /\ cpc'[c] # "stop_lookup")
        => /\ cpc'[c] = "idle"
           /\ UNCHANGED <<runningAnimations, sessionVars, crashed>>]_vars

\* A stop on a key without a session has just returned while the other key's
\* session is registered and playing.
C4_Witness ==
    /\ stopNoop
    /\ \E s \in Sessions : Playing(s) /\ runningAnimations[skey[s]] = s

\* What the start that created session s has reported, once it has returned.
StartReportOf(s) ==
    IF spc[s] \in {"none", "created"}
    THEN "pending"
    ELSE StartResult(skey[s], fxErr[s] = "err")

\* C5: when entering direct LED mode fails for a start, the start returns the
\* error to its caller and never sends a frame.
C5_ActivationFailureSurfaces ==
    \A s \in Sessions :
        fxErr[s] = "err" => (StartReportOf(s) = "error" /\ spc[s] # "sending")

\* C6: a session with N >= 1 frames sends frame (k-1) mod N on the k-th tick
\* its loop takes, one frame per tick: no tick of such a session fails to send.
C6_FrameSequence ==
    \A s \in Sessions :
        /\ spc[s] = "sending" =>
              (sframes[s] >= 1 /\ ticks[s] >= 1
                 /\ frameIndex[s] = (ticks[s] - 1) % sframes[s])
        /\ spc[s] = "panicked" => sframes[s] = 0

\* A two-frame session is sending frame 0 again on its third tick.
C6_Witness ==
    \E s \in Sessions :
        spc[s] = "sending" /\ sframes[s] = 2 /\ ticks[s] = 3 /\ frameIndex[s] = 0

C8_AtMostOneSendAfterCancel ==
    [][\A s \in Sessions :
        (spc[s] = "select" /\ spc'[s] = "sending" /\ ctxDone[s])
        => ~sentAfterCancel[s]]_vars

\* C9: a start on a malformed location returns a validation error and leaves
\* no session registered for it.
C9_MalformedLocationRejected ==
    \A c \in Callers :
        (HasRegistered(c) /\ parseLocation(ckey[c]).err)
        => /\ StartResult(ckey[c], TRUE) = "error"
           /\ runningAnimations[ckey[c]] = NoSession

\* A step of a start or stop call on location k.
CallStepOn(k) ==
    \E c \in Callers :
        \/ \E n \in 0 .. MaxFrames : Call(c, "start", k, n)
        \/ Call(c, "stop", k, 0)
        \/ /\ InCall(c)
           /\ ckey[c] = k
           /\ \/ StopLookup(c)
              \/ StopCancel(c)
              \/ StopWait(c)
              \/ StartLock(c)
              \/ StartRegister(c)
              \/ StartSpawn(c)

\* A step of the playback task of a session on location k.
TaskStepOn(k) ==
    \E s \in Sessions :
        /\ spc[s] # "none"
        /\ skey[s] = k
        /\ \/ \E o \in Outcomes : TaskActivate(s, o)
           \/ Tick(s)
           \/ TaskSelectDone(s)
           \/ TaskSelectTick(s)
           \/ \E o \in Outcomes : TaskSendDone(s, o)
           \/ TaskCleanupLock(s)
           \/ TaskCleanupDelete(s)
           \/ TaskCloseDone(s)

\* Nothing of location d has changed: its registry entry, and the position,
\* frame index, ticks, cancellation and exit signal of its sessions.
SameSessionsOn(d) ==
    /\ runningAnimations'[d] = runningAnimations[d]
    /\ \A s \in Sessions :
          (spc[s] # "none" /\ skey[s] = d)
          => /\ spc'[s] = spc[s]
             /\ skey'[s] = skey[s]
             /\ sframes'[s] = sframes[s]
             /\ frameIndex'[s] = frameIndex[s]
             /\ ticks'[s] = ticks[s]
             /\ tickPending'[s] = tickPending[s]
             /\ ctxDone'[s] = ctxDone[s]
             /\ done'[s] = done[s]
             /\ fxErr'[s] = fxErr[s]
    /\ \A s \in Sessions : (spc'[s] # "none" /\ skey'[s] = d) => spc[s] # "none"

MaxReplies == 3

\* The model string DiscoverDevices keeps.
TargetModel == "CubeLite"

\* A datagram is its lines; a line holding a colon is the text before the
\* first colon and the text after it (strings.SplitN(line, ":", 2)), a line
\* without one is its text alone.
Header(name, rest) == <<name, rest>>
Line(text) == <<text>>

\* strings.ToLower over the header names the replies below use.
ToLower(s) ==
    CASE s = "Location" -> "location"
      [] s = "LOCATION" -> "location"
      [] s = "MODEL" -> "model"
      [] s = "ID" -> "id"
      [] s = "Cache-Control" -> "cache-control"
      [] OTHER -> s

\* strings.TrimSpace over the texts the replies below use.
TrimSpace(s) ==
    CASE s = " yeelight://192.168.1.239:55443" -> "yeelight://192.168.1.239:55443"
      [] s = " yeelight://192.168.1.240:55443" -> "yeelight://192.168.1.240:55443"
      [] s = " yeelight://192.168.1.242:55443" -> "yeelight://192.168.1.242:55443"
      [] s = " CubeLite" -> "CubeLite"
      [] s = " color" -> "color"
      [] s = " 0x01" -> "0x01"
      [] s = " 0x02" -> "0x02"
      [] s = " 0x03" -> "0x03"
      [] s = " 0x04" -> "0x04"
      [] s = " 0x05" -> "0x05"
      [] s = " max-age=3600" -> "max-age=3600"
      [] s = "model " -> "model"
      [] OTHER -> s

\* &DeviceInfo{}: every field the empty string.
EmptyDevice == [Location |-> "", ID |-> "", Model |-> ""]

\* One pass of parseDeviceInfo's scanner loop over a line.
ParseLine(device, line) ==
    IF Len(line) # 2
    THEN device
    ELSE LET header == ToLower(TrimSpace(line[1]))
             value == TrimSpace(line[2])
         IN CASE header = "location" -> [device EXCEPT !.Location = value]
              [] header = "id" -> [device EXCEPT !.ID = value]
              [] header = "model" -> [device EXCEPT !.Model = value]
              [] OTHER -> device

RECURSIVE ParseLines(_, _)
ParseLines(device, lines) ==
    IF lines = <<>>
    THEN device
    ELSE ParseLines(ParseLine(device, Head(lines)), Tail(lines))

parseDeviceInfo(response) == ParseLines(EmptyDevice, response)

\* A reply of a CubeLite at 192.168.1.239.
ReplyA ==
    << Line("HTTP/1.1 200 OK"),
       Header("Cache-Control", " max-age=3600"),
       Header("Location", " yeelight://192.168.1.239:55443"),
       Header("id", " 0x01"),
       Header("model", " CubeLite") >>

\* A reply giving the same location under another id.
ReplyA2 ==
    << Line("HTTP/1.1 200 OK"),
       Header("Location", " yeelight://192.168.1.239:55443"),
       Header("id", " 0x02"),
       Header("model", " CubeLite") >>

\* The reply of 192.168.1.239 cut off after its Location line.
ReplyATruncated ==
    << Line("HTTP/1.1 200 OK"),
       Header("Location", " yeelight://192.168.1.239:55443") >>

\* A reply of a bulb of another model.
ReplyB ==
    << Line("HTTP/1.1 200 OK"),
       Header("Location", " yeelight://192.168.1.240:55443"),
       Header("id", " 0x03"),
       Header("model", " color") >>

\* A reply of a CubeLite that writes its header names in capitals.
ReplyC ==
    << Line("HTTP/1.1 200 OK"),
       Header("LOCATION", " yeelight://192.168.1.242:55443"),
       Header("ID", " 0x04"),
       Header("model ", " CubeLite") >>

\* A datagram that is no reply at all.
ReplyGarbage == << Line("garbage") >>

\* A reply of a CubeLite that names no location.
ReplyNoLocation ==
    << Line("HTTP/1.1 200 OK"),
       Header("id", " 0x05"),
       Header("model", " CubeLite") >>

Datagrams ==
    {ReplyA, ReplyA2, ReplyATruncated, ReplyB, ReplyC, ReplyGarbage, ReplyNoLocation}

\* The failures of the socket set-up and of SetReadDeadline.
SocketFailures == {"resolve", "listen", "write", "deadline"}

\* Faulty variant of AfterSetupFailure: the loop is entered all the same.
AfterSetupFailureReads(outcome) == "reading"

\* return nil, fmt.Errorf(...) of the four tests before the loop.
AfterSetupFailure(outcome) == "returned"

\* ResolveUDPAddr, ListenUDP, WriteToUDP, SetReadDeadline: any of them failing
\* ends the call with that error.
DiscoverSetup(outcome) ==
    /\ dpc = "idle"
    /\ IF outcome = "ok"
       THEN dpc' = "reading" /\ derr' = derr
       ELSE dpc' = AfterSetupFailure(outcome) /\ derr' = outcome
    /\ probes' = IF outcome \in {"resolve", "listen"} THEN probes ELSE probes + 1
    /\ UNCHANGED <<received, discoveredDevices, devices, readErr>>

\* The key a record is stored under.
KeyOfID(device) == device.ID

KeyOf(device) == device.Location

\* Faulty variant of Store: a later reply replaces the record.
StoreLast(m, device) ==
    [k \in DOMAIN m \cup {KeyOf(device)} |-> IF k = KeyOf(device) THEN device ELSE m[k]]

\* if discoveredDevices[deviceInfo.Location] == nil { ... = deviceInfo }
Store(m, device) ==
    IF KeyOf(device) \in DOMAIN m
    THEN m
    ELSE [k \in DOMAIN m \cup {KeyOf(device)} |->
            IF k = KeyOf(device) THEN device ELSE m[k]]

\* ReadFromUDP returns datagram d: it is parsed and stored, and the read
\* deadline is set again; a failure of that ends the call with an error.
ReadDatagram(d, deadlineOk) ==
    /\ dpc = "reading"
    /\ Len(received) < MaxReplies
    /\ received' = Append(received, d)
    /\ discoveredDevices' = Store(discoveredDevices, parseDeviceInfo(d))
    /\ IF deadlineOk
       THEN dpc' = "reading" /\ derr' = derr
       ELSE dpc' = "returned" /\ derr' = "deadline"
    /\ readErr' = "nil"
    /\ UNCHANGED <<devices, probes>>

\* The errors of ReadFromUDP: the read deadline passing, another error of
\* the network (both are net.Error values), and an error that is none.
ReadErrors == {"timeout", "net", "other"}

\* errors.As(readErr, &netErr)
IsNetError(kind) == kind \in {"timeout", "net"}

\* ReadFromUDP fails: a net.Error (the deadline passing is one) ends the
\* loop, any other error is skipped.
ReadError(kind) ==
    /\ dpc = "reading"
    /\ dpc' = IF IsNetError(kind) THEN "collect" ELSE "reading"
    /\ readErr' = kind
    /\ UNCHANGED <<received, discoveredDevices, devices, derr, probes>>

\* Which records are kept.
IsTargetAny(device) == TRUE

IsTarget(device) == device.Model = TargetModel

Kept(m) == {k \in DOMAIN m : IsTarget(m[k])}

\* The orders in which ranging over the map may visit the keys ks.
Orders(ks) ==
    {order \in [1 .. Cardinality(ks) -> ks] :
        \A i, j \in 1 .. Cardinality(ks) : order[i] = order[j] => i = j}

\* The loop over the map, in whatever order the map is ranged over, and the
\* return.
CollectAndReturn ==
    /\ dpc = "collect"
    /\ \E order \in Orders(Kept(discoveredDevices)) :
          devices' = [i \in 1 .. Len(order) |-> discoveredDevices[order[i]]]
    /\ dpc' = "returned"
    /\ UNCHANGED <<received, discoveredDevices, derr, readErr, probes>>

DiscoveryNext ==
    \/ \E o \in SocketFailures \cup {"ok"} : DiscoverSetup(o) /\ UNCHANGED <<schedulerVars, commandVars, drawingVars, encodingVars, playbackVars, parseVars>>
    \/ \E d \in Datagrams, ok \in BOOLEAN : ReadDatagram(d, ok) /\ UNCHANGED <<schedulerVars, commandVars, drawingVars, encodingVars, playbackVars, parseVars>>
    \/ \E kind \in ReadErrors : ReadError(kind) /\ UNCHANGED <<schedulerVars, commandVars, drawingVars, encodingVars, playbackVars, parseVars>>
    \/ CollectAndReturn /\ UNCHANGED <<schedulerVars, commandVars, drawingVars, encodingVars, playbackVars, parseVars>>

SpecDiscovery == Init /\ [][DiscoveryNext]_vars

\* DiscoverDevices has returned a list.
DiscoverReturned == dpc = "returned" /\ derr = "nil"

\* The datagrams received whose parsed location is l.
RepliesFrom(l) ==
    {i \in 1 .. Len(received) : parseDeviceInfo(received[i]).Location = l}

\* C11: the list DiscoverDevices returns holds at most one record per
\* location, and exactly one record for a location whose replies were all
\* copies of one reply of the target model.
C11_OneRecordPerLocation ==
    DiscoverReturned =>
        /\ \A i, j \in 1 .. Len(devices) :
              devices[i].Location = devices[j].Location => i = j
        /\ \A i \in 1 .. Len(received) :
              LET device == parseDeviceInfo(received[i])
              IN (/\ IsTarget(device)
                  /\ \A j \in RepliesFrom(device.Location) : received[j] = received[i])
                 => Cardinality({n \in 1 .. Len(devices) :
                                    devices[n].Location = device.Location}) = 1

\* Three replies were read, two of them copies of one CubeLite reply and one
\* of another CubeLite, and the list holds one record for each location.
C11_Witness ==
    /\ DiscoverReturned
    /\ Len(received) = 3
    /\ Cardinality(RepliesFrom("yeelight://192.168.1.239:55443")) = 2
    /\ \A i \in 1 .. Len(received) : received[i] \in {ReplyA, ReplyC}
    /\ Len(devices) = 2

\* C12: every record of the returned list has the target model; a reply of
\* another model, or without a model header, is not in the list.
C12_OnlyTargetModel ==
    DiscoverReturned =>
        /\ \A i \in 1 .. Len(devices) : devices[i].Model = TargetModel
        /\ \A i \in 1 .. Len(received) :
              parseDeviceInfo(received[i]).Model # TargetModel
              => \A n \in 1 .. Len(devices) : devices[n] # parseDeviceInfo(received[i])

\* A reply of another model and a reply without a model header were read
\* besides a CubeLite's, and the list holds the CubeLite alone.
C12_Witness ==
    /\ DiscoverReturned
    /\ \E i, j, k \in 1 .. Len(received) :
          received[i] = ReplyB /\ received[j] = ReplyGarbage /\ received[k] = ReplyC
    /\ devices = << parseDeviceInfo(ReplyC) >>

\* A reply has its status line and names its location and its model.
WellFormed(d) ==
    /\ d # <<>>
    /\ Head(d) = Line("HTTP/1.1 200 OK")
    /\ parseDeviceInfo(d).Location # ""
    /\ parseDeviceInfo(d).Model # ""

RECURSIVE StoreAll(_, _)
StoreAll(m, replies) ==
    IF replies = <<>>
    THEN m
    ELSE StoreAll(Store(m, parseDeviceInfo(Head(replies))), Tail(replies))

\* The records DiscoverDevices returns when it reads the datagrams replies.
RecordsFor(replies) ==
    LET m == StoreAll([l \in {} |-> l], replies)
    IN {m[k] : k \in Kept(m)}

\* C13: the records returned are those that would have been returned had the
\* malformed datagrams not been received.
C13_MalformedDropsOnlyItself ==
    DiscoverReturned =>
        {devices[i] : i \in 1 .. Len(devices)} = RecordsFor(SelectSeq(received, WellFormed))

\* ------------------------------------------------------- protocol client
\* Calls made one after the other.
MaxCalls == 3

Methods == {"activate_fx_mode", "update_leds", "get_prop"}

\* An element of the Result array ([]interface{}): a JSON string, or a JSON
\* number, which json.Unmarshal stores as a float64.
JSONString(s) == [isString |-> TRUE, text |-> s]

JSONNumber(s) == [isString |-> FALSE, text |-> s]

\* What a device may send back on the connection: a result, an error
\* object, a notification of a changed property (a method and params, with
\* neither result nor error), a line that is not JSON, or nothing before the
\* deadline.
DeviceReplies ==
    { [kind |-> "result", result |-> <<JSONString("ok")>>, code |-> 0, message |-> ""],
      [kind |-> "result", result |-> <<JSONString("on"), JSONString("100")>>, code |-> 0,
       message |-> ""],
      [kind |-> "result", result |-> <<JSONNumber("0")>>, code |-> 0, message |-> ""],
      [kind |-> "result", result |-> <<>>, code |-> 0, message |-> ""],
      [kind |-> "notification", result |-> <<>>, code |-> 0, message |-> ""],
      [kind |-> "error", result |-> <<>>, code |-> -1, message |-> "method not supported"],
      [kind |-> "error", result |-> <<>>, code |-> -5000, message |-> "general error"],
      [kind |-> "garbage", result |-> <<>>, code |-> 0, message |-> ""],
      NoReply }

\* fmt.Errorf: the text, and the error it wraps with %w.
Errorf(text, code, detail, wraps) ==
    [text |-> text, code |-> code, detail |-> detail, wraps |-> wraps]

\* defer conn.Close(): the connection the call has opened is closed when the
\* call returns.
ConnKept(pc, conn) == conn

ConnAfter(pc, conn) == IF pc = "returned" /\ conn = "open" THEN "closed" ELSE conn

\* A call returns.
CmdReturn(response, err, cause) ==
    /\ kpc' = "returned"
    /\ kresult' = [response |-> response, err |-> err]
    /\ kcause' = cause

\* The entry of SendCommand or SendCommandNoResponse.
CmdEnter(op, location, method, marshalOk) ==
    /\ kpc' = "parse"
    /\ kcall' = [seq |-> kcall.seq + 1, op |-> op, location |-> location, method |-> method,
                 marshalOk |-> marshalOk]
    /\ knet' = <<>>
    /\ kreply' = NoReply
    /\ kcause' = "none"
    /\ kresult' = [response |-> NilResponse, err |-> NoError]
    /\ kconn' = "none"

\* SendCommand or SendCommandNoResponse is called.
CmdCall(op, location, method, marshalOk) ==
    /\ kpc \in {"idle", "returned"}
    /\ kwrap.pc # "calling"
    /\ kcall.seq < MaxCalls
    /\ CmdEnter(op, location, method, marshalOk)
    /\ kwrap' = NoWrapper

\* addr, err := parseLocation(device.Location); if err != nil { return }
CmdParse ==
    /\ kpc = "parse"
    /\ IF parseLocation(kcall.location).err
       THEN CmdReturn(NilResponse,
                      Errorf("invalid location format: ", 0, kcall.location, "none"),
                      "validation")
       ELSE kpc' = "dial" /\ UNCHANGED <<kresult, kcause>>
    /\ UNCHANGED <<kcall, knet, kreply, kconn, kwrap>>

\* Where a call goes after a step of it has failed.
RetryOnFailure(step) == step

OnFailure(step) == "returned"

\* net.DialTimeout("tcp", addr, 3*time.Second)
CmdDial(ok) ==
    /\ kpc = "dial"
    /\ knet' = Append(knet, "dial")
    /\ IF ok
       THEN kpc' = "marshal" /\ UNCHANGED <<kresult, kcause>>
       ELSE /\ kpc' = OnFailure("dial")
            /\ kresult' = [response |-> NilResponse,
                           err |-> Errorf("failed to connect to ", 0,
                                          parseLocation(kcall.location).addr, "net")]
            /\ kcause' = "connect"
    /\ kconn' = IF ok THEN "open" ELSE "none"
    /\ UNCHANGED <<kcall, kreply, kwrap>>

\* cmdJSON, err := json.Marshal(cmd)
CmdMarshal ==
    /\ kpc = "marshal"
    /\ IF kcall.marshalOk
       THEN kpc' = "write" /\ UNCHANGED <<kresult, kcause>>
       ELSE CmdReturn(NilResponse, Errorf("failed to encode command: ", 0, "", "json"), "encode")
    /\ kconn' = ConnAfter(kpc', kconn)
    /\ UNCHANGED <<kcall, knet, kreply, kwrap>>

\* Whether the function reads the device's answer.
ReadsResponseAlways(op) == TRUE

ReadsResponse(op) == op = "SendCommand"

\* conn.Write(append(cmdJSON, "\r\n")); SendCommandNoResponse returns nil
\* once the write has succeeded.
CmdWrite(ok) ==
    /\ kpc = "write"
    /\ knet' = Append(knet, "write")
    /\ IF ~ok
       THEN /\ kpc' = OnFailure("write")
            /\ kresult' = [response |-> NilResponse,
                           err |-> Errorf("failed to send command: ", 0, "", "net")]
            /\ kcause' = "write"
       ELSE IF ReadsResponse(kcall.op)
            THEN kpc' = "read" /\ UNCHANGED <<kresult, kcause>>
            ELSE CmdReturn(NilResponse, NoError, "ok")
    /\ kconn' = ConnAfter(kpc', kconn)
    /\ UNCHANGED <<kcall, kreply, kwrap>>

\* json.Unmarshal(responseBytes, &response)
Unmarshal(reply) ==
    [isNil |-> FALSE,
     Result |-> reply.result,
     hasError |-> reply.kind = "error",
     Code |-> reply.code,
     Message |-> reply.message]

\* What SendCommand hands back beside the error when the device reports one.
ResponseDropped(response) == NilResponse

ResponseOnDeviceError(response) == response

\* reader.ReadBytes('\n'), json.Unmarshal, the check of response.Error, and
\* the return.
CmdRead(reply) ==
    /\ kpc = "read"
    /\ knet' = Append(knet, "read")
    /\ kreply' = reply
    /\ CASE reply.kind = "none" ->
              /\ kpc' = OnFailure("read")
              /\ kresult' = [response |-> NilResponse,
                             err |-> Errorf("failed to read response: ", 0, "", "net")]
              /\ kcause' = "read"
         [] reply.kind = "garbage" ->
              CmdReturn(NilResponse, Errorf("failed to parse response: ", 0, "", "json"),
                        "parse")
         [] reply.kind = "error" ->
              CmdReturn(ResponseOnDeviceError(Unmarshal(reply)),
                        Errorf("device error: ", Unmarshal(reply).Code,
                               Unmarshal(reply).Message, "none"),
                        "device")
         [] OTHER ->
              CmdReturn(Unmarshal(reply), NoError, "ok")
    /\ kconn' = ConnAfter(kpc', kconn)
    /\ UNCHANGED <<kcall, kwrap>>

\* The method ActivateFxMode, TogglePower or SetBrightness sends.
MethodOf(fn) ==
    CASE fn = "ActivateFxMode" -> "activate_fx_mode"
      [] fn = "TogglePower" -> "toggle"
      [] fn = "SetBrightness" -> "set_bright"

Wrappers == {"ActivateFxMode", "TogglePower", "SetBrightness"}

\* if brightness < 1 || brightness > 100
BrightnessOutOfRange(brightness) == brightness < 1 \/ brightness > 100

\* ActivateFxMode, TogglePower or SetBrightness is called: SetBrightness
\* returns at once on a brightness out of range, and otherwise each calls
\* SendCommand with its method and parameters, which json.Marshal encodes.
WrapCall(fn, location, brightness) ==
    /\ kpc \in {"idle", "returned"}
    /\ kwrap.pc # "calling"
    /\ kcall.seq < MaxCalls
    /\ IF fn = "SetBrightness" /\ BrightnessOutOfRange(brightness)
       THEN /\ kwrap' = [pc |-> "returned", fn |-> fn, brightness |-> brightness,
                         err |-> "brightness must be between 1 and 100"]
            /\ kcall' = [kcall EXCEPT !.seq = @ + 1, !.op = "none"]
            /\ kpc' = "idle"
            /\ knet' = <<>>
            /\ kreply' = NoReply
            /\ kcause' = "none"
            /\ kresult' = [response |-> NilResponse, err |-> NoError]
            /\ kconn' = "none"
       ELSE /\ kwrap' = [pc |-> "calling", fn |-> fn, brightness |-> brightness, err |-> "nil"]
            /\ CmdEnter("SendCommand", location, MethodOf(fn), TRUE)

\* len(response.Result) > 0, result is a string, and result == "ok"
FirstIsAnything(Result) == Len(Result) > 0

FirstIsOk(Result) == Len(Result) > 0 /\ Result[1] = JSONString("ok")

\* SendCommand has returned to ActivateFxMode, TogglePower or SetBrightness,
\* which wraps its error, or checks the result and returns.
WrapReturn ==
    /\ kwrap.pc = "calling"
    /\ kpc = "returned"
    /\ kwrap' = [kwrap EXCEPT !.pc = "returned",
                               !.err = IF kresult.err # NoError THEN "failed to"
                                       ELSE IF FirstIsOk(kresult.response.Result) THEN "nil"
                                       ELSE "unexpected response from device"]
    /\ UNCHANGED <<kpc, kcall, knet, kreply, kcause, kresult, kconn>>

\* The levels SetBrightness is called with: the ends of the range and the
\* values next to them.
Brightnesses == {0, 1, 100, 101}

CommandNext ==
    \/ \E op \in {"SendCommand", "SendCommandNoResponse"}, l \in Locations, m \in Methods,
          ok \in BOOLEAN : CmdCall(op, l, m, ok) /\ UNCHANGED <<schedulerVars, discoveryVars, drawingVars, encodingVars, playbackVars, parseVars>>
    \/ CmdParse /\ UNCHANGED <<schedulerVars, discoveryVars, drawingVars, encodingVars, playbackVars, parseVars>>
    \/ \E ok \in BOOLEAN : CmdDial(ok) /\ UNCHANGED <<schedulerVars, discoveryVars, drawingVars, encodingVars, playbackVars, parseVars>>
    \/ CmdMarshal /\ UNCHANGED <<schedulerVars, discoveryVars, drawingVars, encodingVars, playbackVars, parseVars>>
    \/ \E ok \in BOOLEAN : CmdWrite(ok) /\ UNCHANGED <<schedulerVars, discoveryVars, drawingVars, encodingVars, playbackVars, parseVars>>
    \/ \E r \in DeviceReplies : CmdRead(r) /\ UNCHANGED <<schedulerVars, discoveryVars, drawingVars, encodingVars, playbackVars, parseVars>>
    \/ \E fn \in Wrappers, l \in Locations, b \in Brightnesses :
          WrapCall(fn, l, b) /\ UNCHANGED <<schedulerVars, discoveryVars, drawingVars, encodingVars, playbackVars, parseVars>>
    \/ WrapReturn /\ UNCHANGED <<schedulerVars, discoveryVars, drawingVars, encodingVars, playbackVars, parseVars>>

SpecCommand == Init /\ [][CommandNext]_vars

\* The location handed to the call starts with the scheme prefix.
HasSchemePrefix(location) == Len(location) >= 1 /\ location[1] = SchemePrefix

\* C14: a SendCommand or SendCommandNoResponse call on a location without the
\* scheme prefix attempts nothing on the network and returns a validation
\* error.
C14_ValidationBeforeConnect ==
    (kcall.op # "none" /\ ~HasSchemePrefix(kcall.location)) =>
        /\ knet = <<>>
        /\ kpc \in {"parse", "returned"}
        /\ kpc = "returned" =>
              /\ kresult.err = Errorf("invalid location format: ", 0, kcall.location, "none")
              /\ kresult.response = NilResponse

\* A second call in a row, of SendCommandNoResponse, has returned the
\* validation error with nothing attempted.
C14_Witness ==
    /\ kpc = "returned"
    /\ kcall.op = "SendCommandNoResponse"
    /\ kcall.location = LocBad
    /\ kcall.seq = 2
    /\ kresult.err.text = "invalid location format: "
    /\ knet = <<>>

\* What a caller can test on the two results of SendCommand.
IsDeviceError(result) == ~result.response.isNil /\ result.response.hasError

\* C15: when the device answers with an error object SendCommand returns an
\* error with the device's code and message, and with it the response holding
\* them; every transport failure and every validation error comes with a nil
\* response, so the caller can tell them apart.
C15_DeviceErrorDistinct ==
    kpc = "returned" =>
        /\ kcause = "device" =>
              /\ kresult.err # NoError
              /\ kresult.err.code = kreply.code
              /\ kresult.err.detail = kreply.message
              /\ IsDeviceError(kresult)
              /\ kresult.response.Code = kreply.code
              /\ kresult.response.Message = kreply.message
        /\ kcause \in {"validation", "connect", "encode", "write", "read", "parse"} =>
              /\ kresult.err # NoError
              /\ ~IsDeviceError(kresult)
              /\ kresult.err.text # "device error: "
        /\ (kreply.kind = "error") = (kcause = "device")

\* SendCommand has returned the device's error -5000.
C15_Witness ==
    /\ kpc = "returned"
    /\ kcall.op = "SendCommand"
    /\ kreply.kind = "error"
    /\ kresult.err = Errorf("device error: ", -5000, "general error", "none")
    /\ kresult.response.Code = -5000

IsPrefix(s, t) == Len(s) <= Len(t) /\ \A i \in 1 .. Len(s) : s[i] = t[i]

\* C16: a call connects at most once, writes at most once and reads at most
\* once, in that order, and a step that fails is the call's last.
C16_NoRetry ==
    /\ IsPrefix(knet, <<"dial", "write", "read">>)
    /\ kcause = "connect" => (kpc = "returned" /\ knet = <<"dial">>)
    /\ kcause = "write" => (kpc = "returned" /\ knet = <<"dial", "write">>)
    /\ kcause = "read" => (kpc = "returned" /\ knet = <<"dial", "write", "read">>)
    /\ kcause \in {"validation", "encode", "parse", "device", "ok"} => kpc = "returned"

\* SendCommand has returned after its read failed, each step made once.
C16_Witness ==
    /\ kpc = "returned"
    /\ kcall.op = "SendCommand"
    /\ kcause = "read"
    /\ knet = <<"dial", "write", "read">>

\* C17: SendCommandNoResponse never reads; it returns nil exactly when the
\* write has succeeded, and an error exactly when parsing the location,
\* connecting, encoding or writing has failed.
C17_FireAndForget ==
    kcall.op = "SendCommandNoResponse" =>
        /\ IsPrefix(knet, <<"dial", "write">>)
        /\ kreply = NoReply
        /\ kpc = "returned" =>
              /\ kcause \in {"ok", "validation", "connect", "encode", "write"}
              /\ (kresult.err = NoError) = (kcause = "ok")
              /\ kcause = "ok" => knet = <<"dial", "write">>
              /\ kresult.response = NilResponse

\* SendCommandNoResponse has returned nil after its write.
C17_Witness ==
    /\ kpc = "returned"
    /\ kcall.op = "SendCommandNoResponse"
    /\ kcall.method = "update_leds"
    /\ kresult.err = NoError
    /\ knet = <<"dial", "write">>

\* ----------------------------------------------------------- framebuffer
\* Calls that write to one framebuffer, one after the other; calls that read
\* it are not counted.
MaxOps == 1

\* The largest int; Go's int is modelled eight bits wide, which keeps the
\* wrap-around of x+5 and y+5 within reach.
MaxInt == 127

\* a + b in int arithmetic.
IntAdd(a, b) == ((a + b + MaxInt + 1) % (2 * MaxInt + 2)) - MaxInt - 1

ColorA == [R |-> 255, G |-> 0, B |-> 0]
ColorB == [R |-> 0, G |-> 255, B |-> 0]
ColorC == [R |-> 0, G |-> 0, B |-> 255]
ColorD == [R |-> 255, G |-> 255, B |-> 255]
ColorE == [R |-> 1, G |-> 2, B |-> 3]

\* NewFramebuffer(width, height): width*height black pixels.
NewFramebuffer(width, height) ==
    [Width |-> width, Height |-> height, Pixels |-> [i \in 1 .. width * height |-> Black]]

\* The framebuffers the calls start from: a 5x1 buffer coloured A to E, every
\* 2x2 buffer of black and A, and an empty 6x5, 5x6 and 11x5 buffer.
InitBuffers ==
    { [Width |-> 5, Height |-> 1, Pixels |-> <<ColorA, ColorB, ColorC, ColorD, ColorE>>] }
    \cup { [Width |-> 2, Height |-> 2, Pixels |-> px] : px \in [1 .. 4 -> {Black, ColorA}] }
    \cup { NewFramebuffer(6, 5), NewFramebuffer(5, 6), NewFramebuffer(11, 5) }

InitDrawing ==
    /\ SchedulerInit
    /\ DiscoveryIdle
    /\ CommandIdle
    /\ fb \in InitBuffers
    /\ glast = NoCall
    /\ ParseIdle
    /\ PlaybackIdle
    /\ EncodingIdle

\* base64.StdEncoding's alphabet.
Base64Alphabet ==
    << "A", "B", "C", "D", "E", "F", "G", "H", "I", "J", "K", "L", "M", "N", "O", "P",
       "Q", "R", "S", "T", "U", "V", "W", "X", "Y", "Z", "a", "b", "c", "d", "e", "f",
       "g", "h", "i", "j", "k", "l", "m", "n", "o", "p", "q", "r", "s", "t", "u", "v",
       "w", "x", "y", "z", "0", "1", "2", "3", "4", "5", "6", "7", "8", "9", "+", "/" >>

\* Faulty variant of encodeRGBColor: the two high bits of b are left out of
\* the third character.
encodeRGBColorLossy(r, g, b) ==
    << Base64Alphabet[(r \div 4) + 1],
       Base64Alphabet[((r % 4) * 16 + (g \div 16)) + 1],
       Base64Alphabet[((g % 16) * 4) + 1],
       Base64Alphabet[(b % 64) + 1] >>

\* encodeRGBColor: base64 of the three bytes, four characters.
encodeRGBColor(r, g, b) ==
    << Base64Alphabet[(r \div 4) + 1],
       Base64Alphabet[((r % 4) * 16 + (g \div 16)) + 1],
       Base64Alphabet[((g % 16) * 4 + (b \div 64)) + 1],
       Base64Alphabet[(b % 64) + 1] >>

\* Faulty variant of OutOfBounds: only x is tested.
OutOfBoundsXOnly(buffer, x, y) == x < 0 \/ x >= buffer.Width

\* x < 0 || x >= fb.Width || y < 0 || y >= fb.Height
OutOfBounds(buffer, x, y) ==
    x < 0 \/ x >= buffer.Width \/ y < 0 \/ y >= buffer.Height

\* fb.Pixels[y*fb.Width+x], counted from 1.
PixelIndex(buffer, x, y) == y * buffer.Width + x + 1

\* SetPixel: the buffer afterwards and the error.
SetPixel(buffer, x, y, color) ==
    IF OutOfBounds(buffer, x, y)
    THEN [fb |-> buffer, err |-> "pixel coordinates out of bounds"]
    ELSE [fb |-> [buffer EXCEPT !.Pixels[PixelIndex(buffer, x, y)] = color], err |-> "nil"]

\* GetPixel: the colour and the error.
GetPixel(buffer, x, y) ==
    IF OutOfBounds(buffer, x, y)
    THEN [color |-> Black, err |-> "pixel coordinates out of bounds"]
    ELSE [color |-> buffer.Pixels[PixelIndex(buffer, x, y)], err |-> "nil"]

\* Faulty variant of XOrder: columns left to right.
XOrderLeftToRight(buffer, k) == k

\* for x := fb.Width - 1; x >= 0; x--: the column of the k-th pass, k from 0.
XOrder(buffer, k) == buffer.Width - 1 - k

\* Encode's inner loop over row y from its k-th pass on.  WriteString adds
\* four characters, so written is never builder: the comparison only has the
\* builder computed at each pass, as the code does, and not all at the end.
RECURSIVE EncodeRow(_, _, _, _)
EncodeRow(buffer, y, k, builder) ==
    IF XOrder(buffer, k) < 0 \/ XOrder(buffer, k) >= buffer.Width
    THEN builder
    ELSE LET pixel == buffer.Pixels[PixelIndex(buffer, XOrder(buffer, k), y)]
             written == builder \o encodeRGBColor(pixel.R, pixel.G, pixel.B)
         IN IF written = builder
            THEN builder
            ELSE EncodeRow(buffer, y, k + 1, written)

\* Encode's outer loop from row y on.
RECURSIVE EncodeRows(_, _, _)
EncodeRows(buffer, y, builder) ==
    IF y >= buffer.Height
    THEN builder
    ELSE EncodeRows(buffer, y + 1, EncodeRow(buffer, y, 0, builder))

Encode(buffer) == EncodeRows(buffer, 0, <<>>)

Digits == {"0", "1", "2", "3", "4", "5", "6", "7", "8", "9"}

digitFont ==
    [d \in Digits |->
        CASE d = "0" ->
               << <<TRUE, TRUE, TRUE, TRUE, TRUE>>,
                  <<TRUE, FALSE, FALSE, FALSE, TRUE>>,
                  <<TRUE, FALSE, FALSE, FALSE, TRUE>>,
                  <<TRUE, FALSE, FALSE, FALSE, TRUE>>,
                  <<TRUE, TRUE, TRUE, TRUE, TRUE>> >>
          [] d = "1" ->
               << <<FALSE, FALSE, TRUE, FALSE, FALSE>>,
                  <<FALSE, TRUE, TRUE, FALSE, FALSE>>,
                  <<FALSE, FALSE, TRUE, FALSE, FALSE>>,
                  <<FALSE, FALSE, TRUE, FALSE, FALSE>>,
                  <<FALSE, TRUE, TRUE, TRUE, FALSE>> >>
          [] d = "2" ->
               << <<TRUE, TRUE, TRUE, TRUE, TRUE>>,
                  <<FALSE, FALSE, FALSE, FALSE, TRUE>>,
                  <<TRUE, TRUE, TRUE, TRUE, TRUE>>,
                  <<TRUE, FALSE, FALSE, FALSE, FALSE>>,
                  <<TRUE, TRUE, TRUE, TRUE, TRUE>> >>
          [] d = "3" ->
               << <<TRUE, TRUE, TRUE, TRUE, TRUE>>,
                  <<FALSE, FALSE, FALSE, FALSE, TRUE>>,
                  <<TRUE, TRUE, TRUE, TRUE, TRUE>>,
                  <<FALSE, FALSE, FALSE, FALSE, TRUE>>,
                  <<TRUE, TRUE, TRUE, TRUE, TRUE>> >>
          [] d = "4" ->
               << <<TRUE, FALSE, FALSE, FALSE, TRUE>>,
                  <<TRUE, FALSE, FALSE, FALSE, TRUE>>,
                  <<TRUE, TRUE, TRUE, TRUE, TRUE>>,
                  <<FALSE, FALSE, FALSE, FALSE, TRUE>>,
                  <<FALSE, FALSE, FALSE, FALSE, TRUE>> >>
          [] d = "5" ->
               << <<TRUE, TRUE, TRUE, TRUE, TRUE>>,
                  <<TRUE, FALSE, FALSE, FALSE, FALSE>>,
                  <<TRUE, TRUE, TRUE, TRUE, TRUE>>,
                  <<FALSE, FALSE, FALSE, FALSE, TRUE>>,
                  <<TRUE, TRUE, TRUE, TRUE, TRUE>> >>
          [] d = "6" ->
               << <<TRUE, TRUE, TRUE, TRUE, TRUE>>,
                  <<TRUE, FALSE, FALSE, FALSE, FALSE>>,
                  <<TRUE, TRUE, TRUE, TRUE, TRUE>>,
                  <<TRUE, FALSE, FALSE, FALSE, TRUE>>,
                  <<TRUE, TRUE, TRUE, TRUE, TRUE>> >>
          [] d = "7" ->
               << <<TRUE, TRUE, TRUE, TRUE, TRUE>>,
                  <<FALSE, FALSE, FALSE, FALSE, TRUE>>,
                  <<FALSE, FALSE, FALSE, TRUE, FALSE>>,
                  <<FALSE, FALSE, TRUE, FALSE, FALSE>>,
                  <<FALSE, TRUE, FALSE, FALSE, FALSE>> >>
          [] d = "8" ->
               << <<TRUE, TRUE, TRUE, TRUE, TRUE>>,
                  <<TRUE, FALSE, FALSE, FALSE, TRUE>>,
                  <<TRUE, TRUE, TRUE, TRUE, TRUE>>,
                  <<TRUE, FALSE, FALSE, FALSE, TRUE>>,
                  <<TRUE, TRUE, TRUE, TRUE, TRUE>> >>
          [] d = "9" ->
               << <<TRUE, TRUE, TRUE, TRUE, TRUE>>,
                  <<TRUE, FALSE, FALSE, FALSE, TRUE>>,
                  <<TRUE, TRUE, TRUE, TRUE, TRUE>>,
                  <<FALSE, FALSE, FALSE, FALSE, TRUE>>,
                  <<TRUE, TRUE, TRUE, TRUE, TRUE>> >>]

\* Faulty variant of GlyphOutside: no test before drawing.
GlyphOutsideUnchecked(buffer, x, y) == FALSE

\* x+5 > fb.Width || y+5 > fb.Height || x < 0 || y < 0, in int arithmetic.
GlyphOutside(buffer, x, y) ==
    IntAdd(x, 5) > buffer.Width \/ IntAdd(y, 5) > buffer.Height \/ x < 0 \/ y < 0

\* Faulty variant of pixelColor: the glyph in negative.
pixelColorInverted(bit, color, background) == IF bit THEN background ELSE color

\* pixelColor := background; if bitmap[row][col] { pixelColor = color }
pixelColor(bit, color, background) == IF bit THEN color ELSE background

\* DrawDigit's loops from pixel i of the glyph on (row i / 5, col i % 5); the
\* first SetPixel that fails ends them.
RECURSIVE DrawPixels(_, _, _, _, _, _, _)
DrawPixels(buffer, bitmap, x, y, color, background, i) ==
    IF i >= 25
    THEN [fb |-> buffer, err |-> "nil"]
    ELSE LET row == i \div 5
             col == i % 5
             set == SetPixel(buffer, IntAdd(x, col), IntAdd(y, row),
                             pixelColor(bitmap[row + 1][col + 1], color, background))
         IN IF set.err # "nil"
            THEN [fb |-> set.fb, err |-> "failed to set pixel"]
            ELSE DrawPixels(set.fb, bitmap, x, y, color, background, i + 1)

\* DrawDigit: the buffer afterwards and the error.
DrawDigit(buffer, digit, x, y, color, background) ==
    IF digit \notin DOMAIN digitFont
    THEN [fb |-> buffer, err |-> "invalid digit character"]
    ELSE IF GlyphOutside(buffer, x, y)
         THEN [fb |-> buffer, err |-> "digit exceeds bounds"]
         ELSE DrawPixels(buffer, digitFont[digit], x, y, color, background, 0)

\* The Alignment constants.
AlignLeft == 0
AlignCenter == 1
AlignRight == 2

\* Faulty variant of TooWide: an exact fit is refused as well.
TooWideOrExact(buffer, totalWidth) == totalWidth >= buffer.Width

\* totalWidth > fb.Width
TooWide(buffer, totalWidth) == totalWidth > buffer.Width

\* Faulty variant of StartX: an unknown alignment is drawn from the left.
StartXDefaultLeft(buffer, totalWidth, alignment) ==
    CASE alignment = AlignCenter -> [x |-> (buffer.Width - totalWidth) \div 2, err |-> "nil"]
      [] alignment = AlignRight -> [x |-> buffer.Width - totalWidth, err |-> "nil"]
      [] OTHER -> [x |-> 0, err |-> "nil"]

\* The switch on alignment: startX, or the error of the default branch.
StartX(buffer, totalWidth, alignment) ==
    CASE alignment = AlignLeft -> [x |-> 0, err |-> "nil"]
      [] alignment = AlignCenter -> [x |-> (buffer.Width - totalWidth) \div 2, err |-> "nil"]
      [] alignment = AlignRight -> [x |-> buffer.Width - totalWidth, err |-> "nil"]
      [] OTHER -> [x |-> 0, err |-> "invalid alignment value"]

\* Faulty variant of NextX: the glyphs side by side whatever the spacing.
NextXNoSpacing(currentX, spacing) == IntAdd(currentX, 5)

\* currentX += 5 + spacing
NextX(currentX, spacing) == IntAdd(currentX, IntAdd(5, spacing))

\* DrawString's loop from character i on: DrawDigit at currentX, which then
\* advances by 5 + spacing; the first DrawDigit that fails ends it.
RECURSIVE DrawDigits(_, _, _, _, _, _, _, _)
DrawDigits(buffer, str, i, currentX, y, spacing, color, background) ==
    IF i > Len(str)
    THEN [fb |-> buffer, err |-> "nil"]
    ELSE LET drawn == DrawDigit(buffer, str[i], currentX, y, color, background)
         IN IF drawn.err # "nil"
            THEN [fb |-> drawn.fb, err |-> "failed to draw digit"]
            ELSE DrawDigits(drawn.fb, str, i + 1, NextX(currentX, spacing),
                            y, spacing, color, background)

\* DrawString: the buffer afterwards and the error.
DrawString(buffer, str, y, spacing, alignment, color, background) ==
    IF Len(str) = 0
    THEN [fb |-> buffer, err |-> "cannot draw empty string"]
    ELSE LET totalWidth == IntAdd(Len(str) * 5, (Len(str) - 1) * spacing)
             start == StartX(buffer, totalWidth, alignment)
         IN IF TooWide(buffer, totalWidth)
            THEN [fb |-> buffer, err |-> "string too wide"]
            ELSE IF start.err # "nil"
                 THEN [fb |-> buffer, err |-> start.err]
                 ELSE DrawDigits(buffer, str, 1, start.x, y, spacing, color, background)

\* strconv.Itoa: the decimal digits of number, after a minus sign when it is
\* negative.
RECURSIVE Itoa(_)
Itoa(number) ==
    LET decimal == <<"0", "1", "2", "3", "4", "5", "6", "7", "8", "9">>
    IN IF number < 0
       THEN <<"-">> \o Itoa(-number)
       ELSE IF number < 10
            THEN <<decimal[number + 1]>>
            ELSE Itoa(number \div 10) \o <<decimal[(number % 10) + 1]>>

\* The arguments the calls are made with.
PixelXs == {-1, 0, fb.Width - 1, fb.Width}
PixelYs == {-1, 0, fb.Height - 1, fb.Height}
Characters == Digits \cup {"a", ":"}
DigitXs == {-1, 0, 1, MaxInt - 2}
DigitYs == {-1, 0, 1, MaxInt - 2}

\* fb.SetPixel(x, y, color)
CallSetPixel(x, y, color) ==
    /\ glast.seq < MaxOps
    /\ LET set == SetPixel(fb, x, y, color)
       IN /\ fb' = set.fb
          /\ glast' = [seq |-> glast.seq + 1, op |-> "SetPixel", x |-> x, y |-> y,
                       digit |-> "", err |-> set.err, out |-> color, encoded |-> <<>>,
                       text |-> NoCall.text, background |-> Black]

\* fb.GetPixel(x, y)
CallGetPixel(x, y) ==
    /\ fb' = fb
    /\ glast' = [seq |-> glast.seq, op |-> "GetPixel", x |-> x, y |-> y, digit |-> "",
                 err |-> GetPixel(fb, x, y).err, out |-> GetPixel(fb, x, y).color,
                 encoded |-> <<>>, text |-> NoCall.text, background |-> Black]

\* fb.Encode()
CallEncode ==
    /\ fb' = fb
    /\ glast' = [seq |-> glast.seq, op |-> "Encode", x |-> 0, y |-> 0, digit |-> "",
                 err |-> "nil", out |-> Black, encoded |-> Encode(fb),
                 text |-> NoCall.text, background |-> Black]

\* DrawDigit(fb, digit, x, y, color, background)
CallDrawDigit(digit, x, y, color, background) ==
    /\ glast.seq < MaxOps
    /\ LET drawn == DrawDigit(fb, digit, x, y, color, background)
       IN /\ fb' = drawn.fb
          /\ glast' = [seq |-> glast.seq + 1, op |-> "DrawDigit", x |-> x, y |-> y,
                       digit |-> digit, err |-> drawn.err, out |-> color, encoded |-> <<>>,
                       text |-> NoCall.text, background |-> background]

\* DrawString(fb, str, y, spacing, alignment, color, background)
CallDrawString(str, y, spacing, alignment, color, background) ==
    /\ glast.seq < MaxOps
    /\ LET drawn == DrawString(fb, str, y, spacing, alignment, color, background)
       IN /\ fb' = drawn.fb
          /\ glast' = [seq |-> glast.seq + 1, op |-> "DrawString", x |-> 0, y |-> y,
                       digit |-> "", err |-> drawn.err, out |-> color, encoded |-> <<>>,
                       text |-> [str |-> str, spacing |-> spacing,
                                 alignment |-> alignment],
                       background |-> background]

\* DrawNumber(fb, number, y, spacing, alignment, color, background)
CallDrawNumber(number, y, spacing, alignment, color, background) ==
    /\ glast.seq < MaxOps
    /\ LET drawn == DrawString(fb, Itoa(number), y, spacing, alignment, color, background)
       IN /\ fb' = drawn.fb
          /\ glast' = [seq |-> glast.seq + 1, op |-> "DrawNumber", x |-> number, y |-> y,
                       digit |-> "", err |-> drawn.err, out |-> color, encoded |-> <<>>,
                       text |-> [str |-> Itoa(number), spacing |-> spacing,
                                 alignment |-> alignment],
                       background |-> background]

DrawingNext ==
    \/ \E x \in PixelXs, y \in PixelYs, c \in {ColorA, ColorB} :
          CallSetPixel(x, y, c) /\ UNCHANGED <<schedulerVars, discoveryVars, commandVars, encodingVars, playbackVars, parseVars>>
    \/ \E x \in PixelXs, y \in PixelYs :
          CallGetPixel(x, y) /\ UNCHANGED <<schedulerVars, discoveryVars, commandVars, encodingVars, playbackVars, parseVars>>
    \/ CallEncode /\ UNCHANGED <<schedulerVars, discoveryVars, commandVars, encodingVars, playbackVars, parseVars>>
    \/ \E d \in Characters, x \in DigitXs, y \in DigitYs :
          CallDrawDigit(d, x, y, ColorB, ColorA)
          /\ UNCHANGED <<schedulerVars, discoveryVars, commandVars, encodingVars, playbackVars, parseVars>>
    \/ \E str \in {<<>>, <<"4">>, <<"4", "2">>, <<"4", "a">>, <<"4", "2", "1">>},
          y \in {0, 1}, spacing \in {-6, 0, 1, 2},
          alignment \in {AlignLeft, AlignCenter, AlignRight, AlignRight + 1} :
          CallDrawString(str, y, spacing, alignment, ColorB, ColorA)
          /\ UNCHANGED <<schedulerVars, discoveryVars, commandVars, encodingVars, playbackVars, parseVars>>
    \/ \E number \in {-4, 7, 42}, spacing \in {0, 1},
          alignment \in {AlignLeft, AlignCenter, AlignRight, AlignRight + 1} :
          CallDrawNumber(number, 0, spacing, alignment, ColorB, ColorA)
          /\ UNCHANGED <<schedulerVars, discoveryVars, commandVars, encodingVars, playbackVars, parseVars>>

SpecDrawing == InitDrawing /\ [][DrawingNext]_vars

\* The pixel at column x of row y, read off the slice.
PixelAt(buffer, x, y) == buffer.Pixels[y * buffer.Width + x + 1]

\* C18: Encode gives Width*Height codes of four characters, row after row
\* from the top, and in a row the k-th code (k from 0) is that of the pixel
\* in column Width-1-k.
C18_EncodeReversesRows ==
    glast.op = "Encode" =>
        /\ Len(glast.encoded) = 4 * fb.Width * fb.Height
        /\ \A y \in 0 .. fb.Height - 1, k \in 0 .. fb.Width - 1 :
              LET pixel == PixelAt(fb, fb.Width - 1 - k, y)
                  at == 4 * (y * fb.Width + k)
              IN SubSeq(glast.encoded, at + 1, at + 4)
                    = encodeRGBColor(pixel.R, pixel.G, pixel.B)

\* The 5x1 buffer coloured A, B, C, D, E has been encoded as the codes of
\* E, D, C, B, A: AQID //// AAD/ AP8A /wAA.
C18_Witness ==
    /\ glast.op = "Encode"
    /\ fb = [Width |-> 5, Height |-> 1,
             Pixels |-> <<ColorA, ColorB, ColorC, ColorD, ColorE>>]
    /\ glast.encoded = << "A", "Q", "I", "D",  "/", "/", "/", "/",  "A", "A", "D", "/",
                          "A", "P", "8", "A",  "/", "w", "A", "A" >>

\* A call that writes to the framebuffer is made.
WriteStep(op) == glast'.seq = glast.seq + 1 /\ glast'.op = op

\* C19: SetPixel and GetPixel outside 0 <= x < Width, 0 <= y < Height fail,
\* and a failed SetPixel changes nothing; inside, SetPixel succeeds, GetPixel
\* of the same place then gives the colour set, and every other pixel is as
\* it was.
C19_PixelBounds ==
    /\ [](glast.op = "GetPixel" =>
            IF glast.x < 0 \/ glast.x >= fb.Width \/ glast.y < 0 \/ glast.y >= fb.Height
            THEN glast.err # "nil"
            ELSE glast.err = "nil" /\ glast.out = PixelAt(fb, glast.x, glast.y))
    /\ [][WriteStep("SetPixel") =>
            LET x == glast'.x
                y == glast'.y
            IN IF x < 0 \/ x >= fb.Width \/ y < 0 \/ y >= fb.Height
               THEN glast'.err # "nil" /\ fb' = fb
               ELSE /\ glast'.err = "nil"
                    /\ GetPixel(fb', x, y) = [color |-> glast'.out, err |-> "nil"]
                    /\ fb'.Width = fb.Width
                    /\ fb'.Height = fb.Height
                    /\ Len(fb'.Pixels) = Len(fb.Pixels)
                    /\ \A x2 \in 0 .. fb.Width - 1, y2 \in 0 .. fb.Height - 1 :
                          (x2 # x \/ y2 # y) => PixelAt(fb', x2, y2) = PixelAt(fb, x2, y2)]_vars

\* GetPixel(1, 1) has returned B from a 2x2 buffer after SetPixel(1, 1, B),
\* the three other pixels being A as before.
C19_Witness ==
    /\ glast.op = "GetPixel"
    /\ glast.seq = 1
    /\ glast.x = 1
    /\ glast.y = 1
    /\ glast.err = "nil"
    /\ glast.out = ColorB
    /\ fb = [Width |-> 2, Height |-> 2, Pixels |-> <<ColorA, ColorA, ColorA, ColorB>>]

\* C20: DrawDigit fails when the character is not a digit or the 5x5 glyph
\* at (x, y) is not wholly inside the buffer, and then no pixel has changed.
C20_DrawDigitRejects ==
    [][WriteStep("DrawDigit") =>
        ((\/ glast'.digit \notin Digits
          \/ glast'.x < 0
          \/ glast'.y < 0
          \/ glast'.x + 5 > fb.Width
          \/ glast'.y + 5 > fb.Height)
         => (glast'.err # "nil" /\ fb' = fb))]_vars

\* DrawDigit of "8" at (1, 0) has failed on the 5x6 buffer, one column short,
\* and the buffer is black as before.
C20_Witness ==
    /\ glast.op = "DrawDigit"
    /\ glast.digit = "8"
    /\ glast.x = 1
    /\ glast.y = 0
    /\ glast.err # "nil"
    /\ fb = NewFramebuffer(5, 6)

\* DrawString or DrawNumber is called with a non-empty text of digits, a valid
\* alignment and five rows of the buffer from y down.
DrawsDigitsStep ==
    /\ glast'.seq = glast.seq + 1
    /\ glast'.op \in {"DrawString", "DrawNumber"}
    /\ Len(glast'.text.str) > 0
    /\ \A i \in 1 .. Len(glast'.text.str) : glast'.text.str[i] \in Digits
    /\ glast'.text.alignment \in {AlignLeft, AlignCenter, AlignRight}
    /\ glast'.y >= 0
    /\ glast'.y + 5 <= fb.Height

\* 5*n + s*(n-1) for the text of the call.
NeededWidth == 5 * Len(glast'.text.str) + glast'.text.spacing * (Len(glast'.text.str) - 1)

\* C21 as stated: DrawString of n digits with spacing s fails when
\* 5*n + s*(n-1) is more than the buffer's width and succeeds when it is not,
\* for every spacing s.
C21_WidthDecidesAnySpacing ==
    [][DrawsDigitsStep => (glast'.err # "nil" <=> NeededWidth > fb.Width)]_vars

\* C21: DrawString of n digits with spacing s >= 0 fails when 5*n + s*(n-1)
\* is more than the buffer's width and succeeds when it is not, the exact fit
\* included.
C21_WidthDecides ==
    [][(DrawsDigitsStep /\ glast'.text.spacing >= 0)
          => (glast'.err # "nil" <=> NeededWidth > fb.Width)]_vars

\* "42" with spacing 1 has been drawn on the 11 columns it needs, from the
\* right: the top row reads 4 as B A A A B, a column left black, and 2 as
\* B B B B B.
C21_Witness ==
    /\ glast.op = "DrawString"
    /\ glast.text = [str |-> <<"4", "2">>, spacing |-> 1, alignment |-> AlignRight]
    /\ glast.err = "nil"
    /\ fb.Width = 11
    /\ SubSeq(fb.Pixels, 1, 11)
          = <<ColorB, ColorA, ColorA, ColorA, ColorB, Black,
              ColorB, ColorB, ColorB, ColorB, ColorB>>

\* C22: DrawString and DrawNumber with an alignment that is not left, center
\* or right fail, whatever the text and the buffer, and no pixel changes.
C22_UnknownAlignmentRejected ==
    [][(/\ glast'.seq = glast.seq + 1
        /\ glast'.op \in {"DrawString", "DrawNumber"}
        /\ glast'.text.alignment \notin {AlignLeft, AlignCenter, AlignRight})
          => (glast'.err # "nil" /\ fb' = fb)]_vars

\* DrawNumber of 42 with an unknown alignment has failed on the 11x5 buffer,
\* wide enough for it, for that reason alone, and the buffer is black as before.
C22_Witness ==
    /\ glast.op = "DrawNumber"
    /\ glast.text.str = <<"4", "2">>
    /\ glast.text.alignment = AlignRight + 1
    /\ glast.err = "invalid alignment value"
    /\ fb = NewFramebuffer(11, 5)

\* ------------------------------------------------------------ pixel codes
\* The values a colour component is given: none, every single bit, and the
\* bytes 3, 127 and 255.
ByteValues == {0, 1, 2, 4, 8, 16, 32, 64, 128, 3, 127, 255}

InitEncoding ==
    /\ SchedulerInit
    /\ DiscoveryIdle
    /\ CommandIdle
    /\ DrawingIdle
    /\ PlaybackIdle
    /\ ParseIdle
    /\ rgb \in ByteValues \X ByteValues \X ByteValues
    /\ rgbText = <<>>

\* encodeRGBColor(r, g, b)
CallEncodeRGBColor ==
    /\ rgbText = <<>>
    /\ rgbText' = encodeRGBColor(rgb[1], rgb[2], rgb[3])
    /\ rgb' = rgb

EncodingNext ==
    CallEncodeRGBColor
    /\ UNCHANGED <<schedulerVars, discoveryVars, commandVars, drawingVars, playbackVars, parseVars>>

SpecEncoding == InitEncoding /\ [][EncodingNext]_vars

\* C23: encodeRGBColor gives every byte triple one string of exactly four
\* characters of the base64 alphabet, and no other triple the same string.
C23_PixelCodeInjective ==
    rgbText # <<>> =>
        /\ Len(rgbText) = 4
        /\ \A i \in 1 .. 4 : \E k \in 1 .. 64 : rgbText[i] = Base64Alphabet[k]
        /\ rgbText = encodeRGBColor(rgb[1], rgb[2], rgb[3])
        /\ \A other \in ByteValues \X ByteValues \X ByteValues :
              encodeRGBColor(other[1], other[2], other[3]) = rgbText => other = rgb

\* (0, 0, 64) has been encoded as AABA, which differs from the AAAA of
\* (0, 0, 0) in the third character only.
C23_Witness ==
    /\ rgb = <<0, 0, 64>>
    /\ rgbText = <<"A", "A", "B", "A">>
    /\ encodeRGBColor(0, 0, 0) = <<"A", "A", "A", "A">>

\* ------------------------------------------- scheduler: further claims
\* C24: a session calls ActivateFxMode once, when its goroutine starts; its
\* result is set once and never again; and UpdateLeds is called only in a
\* session whose ActivateFxMode has returned without error.
C24_ActivatedOnceBeforeFrames ==
    /\ [](\A s \in Sessions : spc[s] = "sending" => fxErr[s] = "nil")
    /\ [][\A s \in Sessions :
            /\ fxErr'[s] # fxErr[s]
                  => (fxErr[s] = "none" /\ spc[s] = "activate" /\ spc'[s] # "activate")
            /\ (spc'[s] = "activate" /\ spc[s] # "activate") => spc[s] = "created"]_vars

\* A session is sending its second frame after one successful activation.
C24_Witness ==
    \E s \in Sessions :
        /\ spc[s] = "sending"
        /\ frameIndex[s] = 1
        /\ fxErr[s] = "nil"

\* C25: animationsMu is held by a caller only between its Lock and the
\* lookup or the insert that follows, and by a goroutine only for its
\* delete: never by one that is in a network command, waits for a tick or
\* waits for a goroutine to exit.
C25_LockOnlyAroundMapAccess ==
    /\ animationsMu.kind = "caller" => cpc[animationsMu.id] \in {"stop_lookup", "start_register"}
    /\ animationsMu.kind = "task" => spc[animationsMu.id] = "cleanup_delete"
    /\ \A c \in Callers :
          cpc[c] \in {"stop_cancel", "stop_wait"} => animationsMu # ByCaller(c)
    /\ \A s \in Sessions :
          spc[s] \in {"activate", "select", "sending"} => animationsMu # ByTask(s)

\* A caller waits for a cancelled goroutine to exit while that goroutine
\* holds the lock for its delete.
C25_Witness ==
    \E c \in Callers :
        /\ cpc[c] = "stop_wait"
        /\ animationsMu = ByTask(cfound[c])
        /\ spc[cfound[c]] = "cleanup_delete"

\* What the scheduling gives: a caller or a goroutine that can take its next
\* step takes it; a network command returns, with one of its outcomes,
\* within its timeout; a Lock that finds the mutex free again and again is
\* granted; and a select whose ctx.Done case is ready again and again comes
\* to choose it.  Nothing is assumed of new calls and of ticks.
Fairness ==
    /\ \A c \in Callers :
          /\ WF_schedulerVars(StopLookup(c))
          /\ WF_schedulerVars(StopCancel(c))
          /\ WF_schedulerVars(StopWait(c))
          /\ SF_schedulerVars(StartLock(c))
          /\ WF_schedulerVars(StartRegister(c))
          /\ WF_schedulerVars(StartSpawn(c))
    /\ \A s \in Sessions :
          /\ WF_schedulerVars(\E o \in Outcomes : TaskActivate(s, o))
          /\ SF_schedulerVars(TaskSelectDone(s))
          /\ WF_schedulerVars(\E o \in Outcomes : TaskSendDone(s, o))
          /\ SF_schedulerVars(TaskCleanupLock(s))
          /\ WF_schedulerVars(TaskCleanupDelete(s))
          /\ WF_schedulerVars(TaskCloseDone(s))

SpecFair == Init /\ [][Next]_vars /\ Fairness

\* C26: every StartDeviceAnimation and StopDeviceAnimation call that has
\* begun returns.
C26_CallsReturn ==
    \A c \in Callers : (cpc[c] # "idle") ~> (cpc[c] = "idle")

\* C27: while the goroutine of a session plays, the registry maps the
\* session's key to that session; and the delete of an exiting goroutine
\* removes no entry but its own session's.
C27_RegistryOwnsLiveTask ==
    /\ [](\A s \in Sessions : Playing(s) => runningAnimations[skey[s]] = s)
    /\ [][\A s \in Sessions :
            (spc[s] = "cleanup_delete" /\ spc'[s] = "close_done")
               => runningAnimations[skey[s]] \in {s, NoSession}]_vars

\* C28: on every tick the loop takes, the index it reads state.Frames at,
\* after the wrap, is one of 0 .. len(state.Frames)-1.
C28_FrameIndexInRange ==
    [][\A s \in Sessions :
          (spc[s] = "select" /\ tickPending[s] /\ ~tickPending'[s]
             /\ spc'[s] \in {"sending", "panicked"})
             => IndexInRange(WrapFrameIndex(frameIndex[s], sframes[s]), sframes[s])]_vars

\* ------------------------------------------------- frames on the wire
\* Ticks one PlayAnimation loop takes.
MaxPlaybackTicks == 3

\* A frame of n pixels of one colour.
FrameOf(color, n) == [i \in 1 .. n |-> color]

\* The frames of a session: two of the 20*5 pixels of the matrix, one of a
\* single pixel, one of a pixel more than the matrix and one of none.
Frames ==
    { FrameOf(ColorA, 20 * 5), FrameOf(ColorB, 20 * 5), FrameOf(ColorC, 1),
      FrameOf(ColorD, 20 * 5 + 1), FrameOf(ColorE, 0) }

\* PlayAnimation after ActivateFxMode has succeeded: fb := NewFramebuffer(20, 5),
\* frameIndex := 0, with up to MaxFrames frames.
InitPlayback ==
    /\ SchedulerInit
    /\ DiscoveryIdle
    /\ CommandIdle
    /\ DrawingIdle
    /\ EncodingIdle
    /\ ParseIdle
    /\ ppc = "loop"
    /\ pframes \in UNION { [1 .. n -> Frames] : n \in 0 .. MaxFrames }
    /\ pframeIndex = 0
    /\ pfb = NewFramebuffer(20, 5)
    /\ prgbData = <<>>
    /\ pticks = 0

\* copy(dst, src): the first min(len(dst), len(src)) elements of src over
\* those of dst, the rest of dst as it was.
Copy(dst, src) == [i \in 1 .. Len(dst) |-> IF i <= Len(src) THEN src[i] ELSE dst[i]]

\* case <-ticker.C: wrap the index, copy the frame into fb, send fb.Encode()
\* with UpdateLeds, whose error is only logged, and frameIndex++.
PlaybackTick ==
    /\ ppc = "loop"
    /\ pticks < MaxPlaybackTicks
    /\ pticks' = pticks + 1
    /\ LET idx == WrapFrameIndex(pframeIndex, Len(pframes))
       IN IF IndexInRange(idx, Len(pframes))
          THEN LET next == [pfb EXCEPT !.Pixels = Copy(pfb.Pixels, pframes[idx + 1])]
               IN /\ pfb' = next
                  /\ prgbData' = Encode(next)
                  /\ pframeIndex' = idx + 1
                  /\ ppc' = "loop"
          ELSE /\ ppc' = "panicked"
               /\ UNCHANGED <<pfb, prgbData, pframeIndex>>
    /\ UNCHANGED pframes

\* case <-ctx.Done(): return nil
PlaybackCancel ==
    /\ ppc = "loop"
    /\ ppc' = "returned"
    /\ UNCHANGED <<pframes, pframeIndex, pfb, prgbData, pticks>>

PlaybackNext ==
    \/ PlaybackTick
       /\ UNCHANGED <<schedulerVars, discoveryVars, commandVars, drawingVars, encodingVars, parseVars>>
    \/ PlaybackCancel
       /\ UNCHANGED <<schedulerVars, discoveryVars, commandVars, drawingVars, encodingVars, parseVars>>

SpecPlayback == InitPlayback /\ [][PlaybackNext]_vars

\* C29: the rgbData sent on a tick is the encoding of the frame of that tick
\* alone, what a fresh 20x5 buffer holding that frame encodes to, whatever
\* was sent before and whatever the frame's length; and it has 400 characters.
C29_PayloadIsCurrentFrame ==
    prgbData # <<>> =>
        /\ Len(prgbData) = 4 * 20 * 5
        /\ prgbData = Encode([NewFramebuffer(20, 5) EXCEPT
                                 !.Pixels = Copy(@, pframes[pframeIndex])])

\* ---------------------------------------------- discovery: further claims
\* C30: the collection loop is left for the filter and the return only by a
\* read that timed out; a read that fails otherwise leaves it collecting.
C30_CollectionEndsOnTimeoutOnly ==
    [][(dpc = "reading" /\ dpc' = "collect") => readErr' = "timeout"]_vars

\* C31 as stated: DiscoverDevices returns either the error of a failed socket
\* set-up or probe, with no list and no read made, or, in every other run,
\* a list and no error after one probe.
C31_SetupFailsOrListReturned ==
    dpc = "returned" =>
        \/ (derr \in {"resolve", "listen", "write"} /\ devices = <<>> /\ received = <<>>)
        \/ (derr = "nil" /\ probes = 1)

\* C31: an error of the socket set-up or of the probe is returned with no
\* list and with no read made; a failure to set the read deadline, before
\* the loop or after a read, is returned as an error with no list as well;
\* and a list is returned, with no error, only after exactly one probe.
C31_SetupFailureIsFatal ==
    dpc = "returned" =>
        /\ derr \in SocketFailures \cup {"nil"}
        /\ derr # "nil" => devices = <<>>
        /\ derr \in {"resolve", "listen", "write"}
              => (received = <<>> /\ readErr = "nil" /\ discoveredDevices = [l \in {} |-> l])
        /\ derr \in {"resolve", "listen"} => probes = 0
        /\ derr \in {"write", "deadline", "nil"} => probes = 1

\* WriteToUDP has failed: the call is over with that error, one probe
\* attempted, nothing read.
C31_Witness ==
    /\ dpc = "returned"
    /\ derr = "write"
    /\ probes = 1
    /\ received = <<>>
    /\ devices = <<>>

\* The record stored for the location of datagram i is that of the first
\* datagram received from that location.
FirstFrom(l) == CHOOSE i \in RepliesFrom(l) : \A j \in RepliesFrom(l) : i <= j

\* C32: the record kept for a location is the one parsed from the first
\* datagram received that names it; a later one neither replaces nor
\* changes it.
C32_FirstReplyKept ==
    /\ \A i \in 1 .. Len(received) :
          LET l == parseDeviceInfo(received[i]).Location
          IN /\ l \in DOMAIN discoveredDevices
             /\ discoveredDevices[l] = parseDeviceInfo(received[FirstFrom(l)])
    /\ DiscoverReturned =>
          \A n \in 1 .. Len(devices) :
              devices[n] = parseDeviceInfo(received[FirstFrom(devices[n].Location)])

\* The CubeLite at 192.168.1.239 answered with id 0x01 and then with id 0x02:
\* the list returned holds the record with id 0x01.
C32_Witness ==
    /\ DiscoverReturned
    /\ received = <<ReplyA, ReplyA2>>
    /\ devices = << parseDeviceInfo(ReplyA) >>
    /\ devices[1].ID = "0x01"

\* C33: every record of the returned list has a location that is not empty.
C33_ReturnedRecordsHaveLocation ==
    DiscoverReturned => \A n \in 1 .. Len(devices) : devices[n].Location # ""

\* ------------------------------------------------- the text of a reply
\* Lines in one reply.
MaxLines == 3

\* The lines a reply is made of, each a sequence of characters: a status
\* line, a location whose value holds colons, a location in capitals with no
\* space after the colon and one at the end, an id with spaces and a tab
\* around its name, a model, an unknown header, a name without a value, a
\* name in capitals, a line that starts with its colon, and a header name
\* with a space inside.
ReplyLines ==
    { <<"H", "T", "T", "P", " ", "O", "K">>,
      <<"L", "o", "c", "a", "t", "i", "o", "n", ":", " ", "y", "e", "e", "l", "i", "g", "h", "t", ":", "/", "/", "h", ":", "1">>,
      <<"L", "O", "C", "A", "T", "I", "O", "N", ":", "y", "e", "e", "l", "i", "g", "h", "t", ":", "/", "/", "h", ":", "2", " ">>,
      <<" ", "I", "d", "\t", ":", " ", "7">>,
      <<"m", "o", "d", "e", "l", ":", " ", "C", "u", "b", "e", "L", "i", "t", "e">>,
      <<"D", "a", "t", "e", ":", " ", "x">>,
      <<"n", "a", "m", "e", ":">>,
      <<"N", "A", "M", "E", ":", " ", "n">>,
      <<":", "v">>,
      <<"l", "o", "c", " ", "a", "t", "i", "o", "n", ":", " ", "z">> }

\* The header names of parseDeviceInfo's switch.
KnownHeaders ==
    { <<"l", "o", "c", "a", "t", "i", "o", "n">>,
      <<"i", "d">>,
      <<"m", "o", "d", "e", "l">>,
      <<"f", "w", "_", "v", "e", "r">>,
      <<"s", "u", "p", "p", "o", "r", "t">>,
      <<"p", "o", "w", "e", "r">>,
      <<"b", "r", "i", "g", "h", "t">>,
      <<"c", "o", "l", "o", "r", "_", "m", "o", "d", "e">>,
      <<"c", "t">>,
      <<"r", "g", "b">>,
      <<"h", "u", "e">>,
      <<"s", "a", "t">>,
      <<"n", "a", "m", "e">> }

UpperCase == <<"A", "B", "C", "D", "E", "F", "G", "H", "I", "J", "K", "L", "M", "N", "O", "P", "Q", "R", "S", "T", "U", "V", "W", "X", "Y", "Z">>
LowerCase == <<"a", "b", "c", "d", "e", "f", "g", "h", "i", "j", "k", "l", "m", "n", "o", "p", "q", "r", "s", "t", "u", "v", "w", "x", "y", "z">>

\* strings.ToLower, character by character.
ToLowerChars(s) ==
    [i \in 1 .. Len(s) |->
        IF \E k \in 1 .. 26 : UpperCase[k] = s[i]
        THEN LowerCase[CHOOSE k \in 1 .. 26 : UpperCase[k] = s[i]]
        ELSE s[i]]

\* strings.TrimSpace: the text from its first to its last character that is
\* not white space.
TrimSpaceChars(s) ==
    LET black == {i \in 1 .. Len(s) : s[i] \notin {" ", "\t", "\r", "\n"}}
    IN IF black = {}
       THEN <<>>
       ELSE SubSeq(s, CHOOSE i \in black : \A j \in black : i <= j,
                      CHOOSE i \in black : \A j \in black : i >= j)

\* Faulty variant of SplitN2: the line is cut at its last colon.
SplitAtLastColon(line) ==
    LET colons == {i \in 1 .. Len(line) : line[i] = ":"}
        last == CHOOSE i \in colons : \A j \in colons : i >= j
    IN IF colons = {}
       THEN <<line>>
       ELSE <<SubSeq(line, 1, last - 1), SubSeq(line, last + 1, Len(line))>>

\* strings.SplitN(line, ":", 2): the line alone when it has no colon, else
\* the text before its first colon and the text after it.
SplitN2(line) ==
    LET colons == {i \in 1 .. Len(line) : line[i] = ":"}
        first == CHOOSE i \in colons : \A j \in colons : i <= j
    IN IF colons = {}
       THEN <<line>>
       ELSE <<SubSeq(line, 1, first - 1), SubSeq(line, first + 1, Len(line))>>

\* One pass of the scanner loop: a line of two parts whose header is known
\* sets that field.
ScanLine(device, line) ==
    LET parts == SplitN2(line)
    IN IF Len(parts) # 2
       THEN device
       ELSE LET header == ToLowerChars(TrimSpaceChars(parts[1]))
                value == TrimSpaceChars(parts[2])
            IN IF header \in KnownHeaders
               THEN [device EXCEPT ![header] = value]
               ELSE device

RECURSIVE ScanLines(_, _)
ScanLines(device, lines) ==
    IF lines = <<>>
    THEN device
    ELSE ScanLines(ScanLine(device, Head(lines)), Tail(lines))

\* parseDeviceInfo over the lines of a text: the fields of &DeviceInfo{},
\* all empty, then set line by line.
parseDeviceInfoChars(lines) == ScanLines([h \in KnownHeaders |-> <<>>], lines)

InitParse ==
    /\ SchedulerInit
    /\ DiscoveryIdle
    /\ CommandIdle
    /\ DrawingIdle
    /\ PlaybackIdle
    /\ EncodingIdle
    /\ replyText \in UNION { [1 .. n -> ReplyLines] : n \in 0 .. MaxLines }
    /\ parsed = <<>>

\* parseDeviceInfo(response)
CallParseDeviceInfo ==
    /\ parsed = <<>>
    /\ parsed' = parseDeviceInfoChars(replyText)
    /\ replyText' = replyText

ParseNext ==
    CallParseDeviceInfo
    /\ UNCHANGED <<schedulerVars, discoveryVars, commandVars, drawingVars, encodingVars,
                   playbackVars>>

SpecParse == InitParse /\ [][ParseNext]_vars

\* The place of the first colon of a line that has one.
FirstColon(line) == CHOOSE i \in 1 .. Len(line) : line[i] = ":" /\ \A j \in 1 .. i - 1 : line[j] # ":"

\* The header a line sets: the text before its first colon, trimmed and in
\* lower case, when that is a known header; no line without a colon has one.
HeaderOf(line) ==
    IF \A i \in 1 .. Len(line) : line[i] # ":"
    THEN <<>>
    ELSE ToLowerChars(TrimSpaceChars(SubSeq(line, 1, FirstColon(line) - 1)))

SetsAField(line) == HeaderOf(line) \in KnownHeaders

\* C34: the record parsed from a reply is the record parsed from the reply
\* without its lines that have no colon or an unknown header; and each field
\* is the text after the first colon, trimmed, of the last line whose header,
\* trimmed and in lower case, is the field's name, or empty without one.
C34_ParseIgnoresOtherLines ==
    parsed # <<>> =>
        /\ parsed = parseDeviceInfoChars(SelectSeq(replyText, SetsAField))
        /\ \A h \in KnownHeaders :
              LET setters == {i \in 1 .. Len(replyText) : HeaderOf(replyText[i]) = h}
                  last == CHOOSE i \in setters : \A j \in setters : i >= j
              IN parsed[h] = IF setters = {}
                             THEN <<>>
                             ELSE TrimSpaceChars(SubSeq(replyText[last],
                                                        FirstColon(replyText[last]) + 1,
                                                        Len(replyText[last])))

\* "Location: yeelight://h:1", the status line and "LOCATION:yeelight://h:2 "
\* have been parsed: the location is yeelight://h:2 and every other field is
\* empty.
C34_Witness ==
    /\ replyText = << <<"L", "o", "c", "a", "t", "i", "o", "n", ":", " ", "y", "e", "e", "l", "i", "g", "h", "t", ":", "/", "/", "h", ":", "1">>,
                     <<"H", "T", "T", "P", " ", "O", "K">>,
                     <<"L", "O", "C", "A", "T", "I", "O", "N", ":", "y", "e", "e", "l", "i", "g", "h", "t", ":", "/", "/", "h", ":", "2", " ">> >>
    /\ parsed # <<>>
    /\ parsed[<<"l", "o", "c", "a", "t", "i", "o", "n">>] = <<"y", "e", "e", "l", "i", "g", "h", "t", ":", "/", "/", "h", ":", "2">>
    /\ \A h \in KnownHeaders \ {<<"l", "o", "c", "a", "t", "i", "o", "n">>} : parsed[h] = <<>>


\* ------------------------------------------------- the connection of a call
\* C35: a SendCommand or SendCommandNoResponse call that has opened a
\* connection has closed it when it returns, at whatever step it ended; a
\* call starts without a connection, and encodes, writes and reads only while
\* the connection it has opened itself is open.
C35_ConnectionClosedOnReturn ==
    /\ kpc = "returned" =>
          kconn = (IF knet # <<>> /\ kcause # "connect" THEN "closed" ELSE "none")
    /\ kpc \in {"idle", "parse", "dial"} => kconn = "none"
    /\ kpc \in {"marshal", "write", "read"} => kconn = "open"

\* The second call in a row, a SendCommand, has returned an error on a reply
\* that is not JSON, its connection closed.
C35_Witness ==
    /\ kpc = "returned"
    /\ kcall.seq = 2
    /\ kcall.op = "SendCommand"
    /\ kcause = "parse"
    /\ kresult.err # NoError
    /\ kconn = "closed"

\* C36: when the line SendCommand has read is a notification, the call does
\* not return it as the successful response to its command.
C36_NotificationNotSuccess ==
    (kpc = "returned" /\ kreply.kind = "notification") => kresult.err # NoError

\* C37: ActivateFxMode, TogglePower and SetBrightness return nil exactly when
\* SendCommand has returned no error and a result whose first element is the
\* string ok; and SetBrightness called with a level outside 1..100 returns an
\* error with no SendCommand call made and nothing attempted on the network.
C37_WrapperSucceedsOnOkOnly ==
    kwrap.pc = "returned" =>
        /\ (kwrap.err = "nil") =
              /\ kcall.op = "SendCommand"
              /\ kpc = "returned"
              /\ kresult.err = NoError
              /\ Len(kresult.response.Result) > 0
              /\ kresult.response.Result[1] = [isString |-> TRUE, text |-> "ok"]
        /\ (kwrap.fn = "SetBrightness" /\ (kwrap.brightness < 1 \/ kwrap.brightness > 100)) =>
              /\ kwrap.err = "brightness must be between 1 and 100"
              /\ kcall.op = "none"
              /\ knet = <<>>
              /\ kconn = "none"

\* SetBrightness(100) has returned nil after the device answered ok.
C37_Witness ==
    /\ kwrap = [pc |-> "returned", fn |-> "SetBrightness", brightness |-> 100, err |-> "nil"]
    /\ kcall.method = "set_bright"
    /\ knet = <<"dial", "write", "read">>
    /\ kreply.result = <<JSONString("ok")>>


\* ------------------------------------------------------- glyphs on the buffer
\* DrawString or DrawNumber is called and returns nil.
DrawsTextStep ==
    /\ glast'.seq = glast.seq + 1
    /\ glast'.op \in {"DrawString", "DrawNumber"}
    /\ glast'.err = "nil"

\* Whether pixel (px, py) lies in the 5x5 block at (x, y).
InBlock(px, py, x, y) == x <= px /\ px < x + 5 /\ y <= py /\ py < y + 5

\* C38: after a successful DrawString (or DrawNumber) of n >= 1 characters
\* with spacing s, glyph i (from 0) stands with its left edge at
\* startX + i*(5+s), where startX is 0 for left, (Width - totalWidth) / 2
\* rounded down for center and Width - totalWidth for right, and
\* totalWidth = 5*n + s*(n-1); every glyph lies inside the buffer; a pixel
\* under one or more glyphs shows the last of them, and every other pixel is
\* as it was.
C38_GlyphsPlaced ==
    [][DrawsTextStep =>
        LET str == glast'.text.str
            n == Len(str)
            s == glast'.text.spacing
            y == glast'.y
            totalWidth == 5 * n + s * (n - 1)
            startX == CASE glast'.text.alignment = 0 -> 0
                        [] glast'.text.alignment = 1 -> (fb.Width - totalWidth) \div 2
                        [] glast'.text.alignment = 2 -> fb.Width - totalWidth
            Left(i) == startX + i * (5 + s)
            Over(px, py) == {i \in 0 .. n - 1 : InBlock(px, py, Left(i), y)}
            Last(S) == CHOOSE i \in S : \A j \in S : j <= i
        IN /\ n >= 1
           /\ fb'.Width = fb.Width /\ fb'.Height = fb.Height
           /\ \A i \in 0 .. n - 1 :
                 /\ str[i + 1] \in Digits
                 /\ Left(i) >= 0 /\ Left(i) + 5 <= fb.Width
                 /\ y >= 0 /\ y + 5 <= fb.Height
           /\ \A px \in 0 .. fb.Width - 1, py \in 0 .. fb.Height - 1 :
                 PixelAt(fb', px, py) =
                    IF Over(px, py) = {}
                    THEN PixelAt(fb, px, py)
                    ELSE LET i == Last(Over(px, py))
                         IN IF digitFont[str[i + 1]][py - y + 1][px - Left(i) + 1]
                            THEN glast'.out
                            ELSE glast'.background]_vars

\* "42" with spacing 1 has been drawn centered on the 11x5 buffer, which it
\* fills: 4 in columns 0..4 and 2 in columns 6..10, so that row 1 reads
\* B A A A B, black, A A A A B.
C38_Witness ==
    /\ glast.op = "DrawString"
    /\ glast.text = [str |-> <<"4", "2">>, spacing |-> 1, alignment |-> AlignCenter]
    /\ glast.y = 0
    /\ glast.err = "nil"
    /\ SubSeq(fb.Pixels, 12, 22)
          = <<ColorB, ColorA, ColorA, ColorA, ColorB, Black,
              ColorA, ColorA, ColorA, ColorA, ColorB>>

\* C39: a successful DrawDigit at (x, y) sets pixel (x+col, y+row) of the 5x5
\* block to the colour where the glyph's bitmap is set at row, col and to the
\* background where it is not, and leaves every pixel outside the block as it
\* was; the bitmap of 0 is set at its corner (0, 0) and not at (1, 1).
C39_DigitBlockWritten ==
    [][(WriteStep("DrawDigit") /\ glast'.err = "nil") =>
        /\ fb'.Width = fb.Width /\ fb'.Height = fb.Height
        /\ \A px \in 0 .. fb.Width - 1, py \in 0 .. fb.Height - 1 :
              PixelAt(fb', px, py) =
                 IF InBlock(px, py, glast'.x, glast'.y)
                 THEN IF digitFont[glast'.digit][py - glast'.y + 1][px - glast'.x + 1]
                      THEN glast'.out
                      ELSE glast'.background
                 ELSE PixelAt(fb, px, py)
        /\ glast'.digit = "0" =>
              /\ PixelAt(fb', glast'.x, glast'.y) = glast'.out
              /\ PixelAt(fb', glast'.x + 1, glast'.y + 1) = glast'.background]_vars

\* 0 has been drawn at (1, 0) on the 6x5 buffer: column 0 is black as before,
\* the glyph's corner is B and the pixel one down and one right of it is A.
C39_Witness ==
    /\ glast.op = "DrawDigit"
    /\ glast.digit = "0"
    /\ glast.x = 1
    /\ glast.y = 0
    /\ glast.err = "nil"
    /\ fb.Width = 6
    /\ \A py \in 0 .. 4 : PixelAt(fb, 0, py) = Black
    /\ PixelAt(fb, 1, 0) = ColorB
    /\ PixelAt(fb, 2, 1) = ColorA

\* C40: when DrawString returns an error the buffer holds the pixels it held
\* before the call.
C40_DrawStringAllOrNothing ==
    [][(/\ glast'.seq = glast.seq + 1
        /\ glast'.op = "DrawString"
        /\ glast'.err # "nil") => fb' = fb]_vars

====
